---- MODULE Spec2Model ----
(***************************************************************************)
(* A model of the data core of the sweden-insights dashboard: the PxWeb    *)
(* payload normalisers (lib/scb_client.py), the hierarchical product-group *)
(* filter and the CPI aggregator (lib/cpi_logic.py) and the migration      *)
(* computations (lib/migration_logic.py).                                  *)
(*                                                                         *)
(* Every operation of the core is a function of its arguments.  A          *)
(* behaviour is one call: Init draws the arguments (pc = "ready"), the     *)
(* operation's action computes the outcome (pc = "done").  An outcome is   *)
(* either a returned value or a raised exception.  The filter can be       *)
(* called once more on its own result (pc = "again").                      *)
(*                                                                         *)
(* Representation.  A pandas cell is an option: Null (NaN / None / NaT) is *)
(* the empty tuple and a present value x is the one-element tuple <<x>>.   *)
(* A string that the code parses or matches is a tuple of one-character    *)
(* strings.  A DataFrame is [columns |-> sequence of column names,         *)
(* rows |-> sequence of records over those columns].  A float parsed by    *)
(* the normaliser is a tagged decimal <<"num", m, e>> = m / 10^e; the      *)
(* volumes the migration computations add and subtract are whole numbers;  *)
(* the observations the CPI aggregator computes with are exact fractions   *)
(* <<"q", n, d>> = n / d.  Where pandas leaves the order of a result open  *)
(* (an unstable sort), the operation is a set of results and its action    *)
(* takes any of them.                                                      *)
(*                                                                         *)
(* The requests that an operation sends to the statistics API are appended *)
(* to `sent`; the API's answers are part of the call's arguments, drawn by *)
(* Init like every other input.                                            *)
(*                                                                         *)
(* The table a caller passes as df is call.df.  An operation's action sets *)
(* it to what the operation's statements leave of it: the statements that  *)
(* bind a local name to a table or write a column are run in source order, *)
(* keeping track of the local names that are bound to the caller's table.  *)
(***************************************************************************)
EXTENDS Integers, Sequences, FiniteSets, TLC

VARIABLES pc, call, ret, sent

vars == <<pc, call, ret, sent>>

(* ------------------------------ cells --------------------------------- *)

Null == <<>>

Some(x) == <<x>>

IsNull(c) == c = Null

NotNa(c) == c # Null

Val(c) == c[1]

\* Series.fillna(0) on one cell.
FillNa0(c) == IF IsNull(c) THEN Some(0) ELSE c

(* ---------------------------- data frames ----------------------------- *)

\* pd.DataFrame(): no columns, no rows.
EmptyFrame == [columns |-> <<>>, rows |-> <<>>]

Frame(columns, rows) == [columns |-> columns, rows |-> rows]

\* DataFrame.empty: any axis of length 0.
DfEmpty(df) == Len(df.rows) = 0 \/ Len(df.columns) = 0

\* "<name>" in df.columns
HasColumn(df, c) == \E i \in 1..Len(df.columns) : df.columns[i] = c

Range(s) == {s[i] : i \in 1..Len(s)}

\* The outcome of a call.
NoOutcome == [kind |-> "none"]

Returned(v) == [kind |-> "return", value |-> v]

Raised(e) == [kind |-> "raise", error |-> e]

\* All sequences over S of length at most n.
SeqUpTo(S, n) == UNION {[1..k -> S] : k \in 0..n}

(* ----------------------------- strings -------------------------------- *)

Digits == <<"0", "1", "2", "3", "4", "5", "6", "7", "8", "9">>

IsDigit(ch) == \E i \in 1..10 : Digits[i] = ch

DigitValue(ch) == (CHOOSE i \in 1..10 : Digits[i] = ch) - 1

\* str(n) for an int n >= 0: its decimal digits without leading zeros.
RECURSIVE NatToStr(_)
NatToStr(n) == IF n < 10 THEN <<Digits[n + 1]>>
               ELSE NatToStr(n \div 10) \o <<Digits[(n % 10) + 1]>>

\* str(n) for an int n.
IntToStr(n) == IF n < 0 THEN <<"-">> \o NatToStr(-n) ELSE NatToStr(n)

(* ------------------ migration: static reference tables ---------------- *)

\* The country codes of the model, in Python's string order (groupby sorts
\* its keys).  "XK" has a name but no coordinates; "ZZ" has neither.
CodeOrder == <<"DE", "NO", "SE", "XK", "ZZ">>

\* get_country_code_to_name_mapping(), restricted to the model's codes.
country_map ==
    [c \in {"DE", "NO", "SE", "XK"} |->
        CASE c = "DE" -> "Germany"
          [] c = "NO" -> "Norway"
          [] c = "SE" -> "Sweden"
          [] c = "XK" -> "Kosovo"]

\* country_coords of add_country_coordinates, restricted to the model's
\* codes; a coordinate is kept in units of 1/10000 degree.
country_coords ==
    [c \in {"DE", "NO", "SE"} |->
        CASE c = "DE" -> <<511657, 104515>>
          [] c = "NO" -> <<604720, 84689>>
          [] c = "SE" -> <<601282, 186435>>]

\* country_coords.get(x, (None, None)), with a wrong default of (0, 0).
CountryCoordsGetZero(x) ==
    IF x \in DOMAIN country_coords
    THEN <<Some(country_coords[x][1]), Some(country_coords[x][2])>>
    ELSE <<Some(0), Some(0)>>

\* country_coords.get(x, (None, None))
CountryCoordsGet(x) ==
    IF x \in DOMAIN country_coords
    THEN <<Some(country_coords[x][1]), Some(country_coords[x][2])>>
    ELSE <<Null, Null>>

\* columns after `df[c] = ...`: an existing column keeps its place.
WithColumn(columns, c) ==
    IF \E i \in 1..Len(columns) : columns[i] = c THEN columns
    ELSE Append(columns, c)

(* ------------------------ the caller's table -------------------------- *)

\* The statements of an operation that bind a local name to a table or write
\* a column of a table, in the order in which a call runs them.
\* x = y.copy()
Copy(x, y) == [kind |-> "copy", var |-> x, from |-> y, col |-> "", cells |-> <<>>]

\* x = y[mask], y.groupby(...)..., y.nlargest(...), y.rename(...),
\* y.fillna(...), y.dropna(...): a new table made from y.  Also x = f(y) for
\* an operation f that returned a table of its own.
Select(x, y) == [kind |-> "select", var |-> x, from |-> y, col |-> "", cells |-> <<>>]

\* x = f(y) for an operation f that returned its argument.
Same(x, y) == [kind |-> "same", var |-> x, from |-> y, col |-> "", cells |-> <<>>]

\* x[col] = ...: the column is written into the table x is bound to.  cells
\* are the values the right-hand side has on the rows of the caller's table.
Assign(x, c, cells) == [kind |-> "assign", var |-> x, from |-> x, col |-> c, cells |-> cells]

\* A copy() that returns the table itself.
BoundAfterCopyShared(bound, x, y) ==
    IF y \in bound THEN bound \cup {x} ELSE bound \ {x}

\* The local names bound to the caller's table after x = y.copy(): the copy
\* is a new table.
BoundAfterCopy(bound, x, y) == bound \ {x}

\* The local names bound to the caller's table after x = y.
BoundAfterSame(bound, x, y) ==
    IF y \in bound THEN bound \cup {x} ELSE bound \ {x}

\* The table t after t[c] = cells.
SetColumn(t, c, cells) ==
    Frame(WithColumn(t.columns, c),
          [i \in 1..Len(t.rows) |->
              [x \in (DOMAIN t.rows[i]) \cup {c} |->
                  IF x # c THEN t.rows[i][x]
                  ELSE IF i <= Len(cells) THEN cells[i] ELSE Null]])

\* The caller's table t after the statements, where `bound` are the local
\* names bound to it.
RECURSIVE TableAfter(_, _, _)
TableAfter(statements, bound, t) ==
    IF statements = <<>> THEN t
    ELSE LET s == Head(statements)
             rest == Tail(statements)
         IN  CASE s.kind = "copy" ->
                    TableAfter(rest, BoundAfterCopy(bound, s.var, s.from), t)
               [] s.kind = "select" ->
                    TableAfter(rest, bound \ {s.var}, t)
               [] s.kind = "same" ->
                    TableAfter(rest, BoundAfterSame(bound, s.var, s.from), t)
               [] s.kind = "assign" ->
                    TableAfter(rest, bound,
                               IF s.var \in bound THEN SetColumn(t, s.col, s.cells) ELSE t)

\* The table the caller passed as df, after the call ran the statements: at
\* entry the parameter df is bound to it.
CallersTable(statements, df) == TableAfter(statements, {"df"}, df)

\* The lookup without the fillna: a code outside the table gets no name.
CountryNameOfBlank(code) ==
    IF code \in DOMAIN country_map THEN country_map[code] ELSE ""

\* df['countrycode'].map(country_map).fillna(df['countrycode']) on one code
CountryNameOf(code) ==
    IF code \in DOMAIN country_map THEN country_map[code] ELSE code

\* map_country_codes_to_names(df)
MapCountryCodesToNames(df) ==
    IF DfEmpty(df) \/ ~HasColumn(df, "countrycode") THEN df
    ELSE Frame(WithColumn(df.columns, "countryname"),
               [i \in 1..Len(df.rows) |->
                   [c \in (DOMAIN df.rows[i]) \cup {"countryname"} |->
                       IF c = "countryname"
                       THEN CountryNameOf(df.rows[i].countrycode)
                       ELSE df.rows[i][c]]])

\* add_country_coordinates(df)
AddCountryCoordinates(df) ==
    LET withCoords ==
            [i \in 1..Len(df.rows) |->
                [c \in (DOMAIN df.rows[i]) \cup {"lat", "lon"} |->
                    CASE c = "lat" -> CountryCoordsGet(df.rows[i].countrycode)[1]
                      [] c = "lon" -> CountryCoordsGet(df.rows[i].countrycode)[2]
                      [] OTHER -> df.rows[i][c]]]
        HasBoth(r) == NotNa(r.lat) /\ NotNa(r.lon)
    IN  Frame(WithColumn(WithColumn(df.columns, "lat"), "lon"),
              SelectSeq(withCoords, HasBoth))

\* df['countrycode'].map(country_map).fillna(df['countrycode']) on the rows
\* of the table.
NameCells(df) == [i \in 1..Len(df.rows) |-> CountryNameOf(df.rows[i].countrycode)]

\* df['countrycode'].map(lambda x: country_coords.get(x, (None, None))[0])
LatCells(df) == [i \in 1..Len(df.rows) |-> CountryCoordsGet(df.rows[i].countrycode)[1]]

\* df['countrycode'].map(lambda x: country_coords.get(x, (None, None))[1])
LonCells(df) == [i \in 1..Len(df.rows) |-> CountryCoordsGet(df.rows[i].countrycode)[2]]

\* The statements map_country_codes_to_names(df) runs.
MapCountryCodesToNamesStatements(df) ==
    IF DfEmpty(df) \/ ~HasColumn(df, "countrycode") THEN <<>>
    ELSE <<Copy("df", "df"), Assign("df", "countryname", NameCells(df))>>

\* The statements add_country_coordinates(df) runs (without the column
\* countrycode the first assignment raises).
AddCountryCoordinatesStatements(df) ==
    <<Copy("df", "df")>>
    \o (IF HasColumn(df, "countrycode")
        THEN <<Assign("df", "lat", LatCells(df)), Assign("df", "lon", LonCells(df)),
               Select("df", "df")>>
        ELSE <<>>)

(* ------------------- migration: prepare_migration_flows --------------- *)

\* Python truthiness of the `year` argument: None and 0 are false.
Truthy(year) == NotNa(year) /\ Val(year) # 0

\* Series.astype(str) on one cell of an object column.
AsStr(cell) == IF IsNull(cell) THEN <<"n", "a", "n">> ELSE Val(cell)

\* 'country' in col.lower() or 'land' in col.lower(), over the column
\* names that occur in the model.
NamesCountry(col) ==
    col \in {"countrycode", "countryname", "Fodelseland", "födelseland",
             "country of birth"}

\* The first column that names the country, or Null.
RECURSIVE FindCountryColumn(_)
FindCountryColumn(columns) ==
    IF columns = <<>> THEN Null
    ELSE IF NamesCountry(Head(columns)) THEN Some(Head(columns))
    ELSE FindCountryColumn(Tail(columns))

\* DataFrame.rename(columns={old: new})
Rename(df, old, new) ==
    Frame([i \in 1..Len(df.columns) |->
              IF df.columns[i] = old THEN new ELSE df.columns[i]],
          [i \in 1..Len(df.rows) |->
              [c \in ((DOMAIN df.rows[i]) \ {old}) \cup {new} |->
                  IF c = new THEN df.rows[i][old] ELSE df.rows[i][c]]])

\* A sum that takes the value of the group's last row (a paired field of
\* one row instead of the total over the gender and year rows).
SumSkipNaLast(rows, col) ==
    IF rows = <<>> THEN 0
    ELSE IF NotNa(rows[Len(rows)][col]) THEN Val(rows[Len(rows)][col])
    ELSE 0

\* Series.sum() of a group: nulls are skipped, an all-null group sums to 0.
RECURSIVE SumSkipNa(_, _)
SumSkipNa(rows, col) ==
    IF rows = <<>> THEN 0
    ELSE (IF NotNa(Head(rows)[col]) THEN Val(Head(rows)[col]) ELSE 0)
         + SumSkipNa(Tail(rows), col)

\* The distinct values of the key column in sorted order (groupby sorts).
SortedKeys(rows, key) ==
    LET present(c) == \E i \in 1..Len(rows) : rows[i][key] = c
    IN  SelectSeq(CodeOrder, present)

\* df.groupby(key, as_index=False).agg({c: "sum" for c in aggCols})
GroupBySum(rows, key, aggCols) ==
    LET keys == SortedKeys(rows, key)
    IN  [k \in 1..Len(keys) |->
            LET inGroup(r) == r[key] = keys[k]
                group == SelectSeq(rows, inGroup)
            IN  [c \in {key} \cup Range(aggCols) |->
                    IF c = key THEN keys[k]
                    ELSE Some(SumSkipNa(group, c))]]

\* The threshold filter with the two directions combined by AND.
KeepFlowAnd(r, aggCols, min_flow) ==
    \A i \in 1..Len(aggCols) : Val(FillNa0(r[aggCols[i]])) >= min_flow

\* filter_conditions combined with `|` after fillna(0)
KeepFlow(r, aggCols, min_flow) ==
    \E i \in 1..Len(aggCols) : Val(FillNa0(r[aggCols[i]])) >= min_flow

\* prepare_migration_flows(df, year, min_flow): the outcome of the call.
PrepareMigrationFlows(df, year, min_flow) ==
    IF DfEmpty(df) THEN Returned(EmptyFrame)
    ELSE
    LET yearRows ==
            IF Truthy(year) /\ HasColumn(df, "year")
            THEN LET sameYear(r) == AsStr(r.year) = IntToStr(Val(year))
                 IN  SelectSeq(df.rows, sameYear)
            ELSE df.rows
        byYear == Frame(df.columns, yearRows)
    IN
    IF Truthy(year) /\ HasColumn(df, "year") /\ DfEmpty(byYear)
    THEN Returned(EmptyFrame)
    ELSE
    LET country_col == FindCountryColumn(byYear.columns) IN
    IF ~HasColumn(byYear, "countrycode") /\ IsNull(country_col)
    THEN Raised("ValueError")
    ELSE
    LET df_filtered ==
            IF HasColumn(byYear, "countrycode") THEN byYear
            ELSE Rename(byYear, Val(country_col), "countrycode")
        isAgg(c) == HasColumn(df_filtered, c)
        agg_dict == SelectSeq(<<"Immigration", "Emigration">>, isAgg)
    IN
    IF agg_dict = <<>> THEN Raised("ValueError")
    ELSE
    LET grouped == GroupBySum(df_filtered.rows, "countrycode", agg_dict)
        keep(r) == KeepFlow(r, agg_dict, min_flow)
        kept == SelectSeq(grouped, keep)
        flowColumns == <<"countrycode">> \o agg_dict
    IN
    IF grouped = <<>> \/ kept = <<>> THEN Returned(EmptyFrame)
    ELSE
    LET named == MapCountryCodesToNames(Frame(flowColumns, kept))
        located == AddCountryCoordinates(named)
        hasBoth(r) == NotNa(r.lat) /\ NotNa(r.lon)
    IN  Returned(Frame(located.columns, SelectSeq(located.rows, hasBoth)))

\* The statements prepare_migration_flows(df, year, min_flow) runs, up to
\* the return or raise that ends the call.  The grouped table of a table
\* with rows has rows; the two nested operations get the non-empty table
\* flows with its countrycode column and return tables of their own.
PrepareMigrationFlowsStatements(df, year, min_flow) ==
    IF DfEmpty(df) THEN <<>>
    ELSE
    LET byYear == Truthy(year) /\ HasColumn(df, "year")
        ofYear(i) == AsStr(df.rows[i].year) = IntToStr(Val(year))
        filtered == <<Copy("df_filtered", "df")>>
                    \o (IF byYear THEN <<Select("df_filtered", "df_filtered")>> ELSE <<>>)
        renamed == filtered
                   \o (IF HasColumn(df, "countrycode") THEN <<>>
                       ELSE <<Select("df_filtered", "df_filtered")>>)
        aggregated == renamed
                      \o <<Select("flows", "df_filtered"), Select("flows", "flows"),
                           Select("flows", "flows")>>
    IN  IF byYear /\ ~\E i \in 1..Len(df.rows) : ofYear(i) THEN filtered
        ELSE IF ~HasColumn(df, "countrycode") /\ IsNull(FindCountryColumn(df.columns))
        THEN filtered
        ELSE IF ~HasColumn(df, "Immigration") /\ ~HasColumn(df, "Emigration") THEN renamed
        ELSE IF PrepareMigrationFlows(df, year, min_flow) = Returned(EmptyFrame)
        THEN aggregated
        ELSE aggregated
             \o <<Select("flows", "flows"), Select("flows", "flows"),
                  Select("flows", "flows")>>

(* --------------- specification: prepare_migration_flows --------------- *)

\* The largest number of rows of an input table.
MaxRows == 2

\* Cells of a migration table as the normaliser leaves them: the year is
\* the key string, the two volumes are nullable numbers.
YearCells == {Some(<<"2", "0", "2", "0">>), Some(<<"2", "0", "2", "1">>)}

\* Immigration sums to 40, 50 or 60 over two rows; Emigration may be null.
ImmigrationCells == {Some(20), Some(30)}

EmigrationCells == {Null, Some(5)}

FlowCodes == {"DE", "NO", "XK"}

\* Two rows of one country and year stand for its rows of the two genders;
\* no operation modelled here reads the gender column.
FlowTables ==
    LET tables(columns, R) ==
            {Frame(columns, rows) : rows \in SeqUpTo(R, MaxRows)}
    IN  tables(<<"countrycode", "year", "Immigration", "Emigration">>,
               [countrycode : FlowCodes, year : YearCells,
                Immigration : ImmigrationCells, Emigration : EmigrationCells])
        \cup tables(<<"countrycode", "Immigration", "Emigration">>,
               [countrycode : FlowCodes,
                Immigration : ImmigrationCells, Emigration : EmigrationCells])
        \cup tables(<<"countrycode", "year", "Immigration">>,
               [countrycode : FlowCodes, year : YearCells,
                Immigration : ImmigrationCells])
        \cup tables(<<"countrycode", "year", "Emigration">>,
               [countrycode : FlowCodes, year : YearCells,
                Emigration : EmigrationCells])
        \cup tables(<<"countrycode", "year">>,
               [countrycode : FlowCodes, year : YearCells])
        \cup tables(<<"Fodelseland", "Immigration">>,
               [Fodelseland : FlowCodes, Immigration : ImmigrationCells])
        \cup tables(<<"year", "Immigration", "Emigration">>,
               [year : YearCells,
                Immigration : ImmigrationCells, Emigration : EmigrationCells])

\* year=None (all years) or a year of the table.
YearArgs == {Null, Some(2020), Some(2021)}

\* The thresholds the migration page passes (10 for one year, 50 for all).
MinFlows == {10, 50}

FlowCalls ==
    {[op |-> "prepare_migration_flows", df |-> d, year |-> y, min_flow |-> m] :
        d \in FlowTables, y \in YearArgs, m \in MinFlows}

InitFlows == pc = "ready" /\ call \in FlowCalls /\ ret = NoOutcome /\ sent = <<>>

CallPrepareMigrationFlows ==
    /\ pc = "ready"
    /\ call.op = "prepare_migration_flows"
    /\ ret' = PrepareMigrationFlows(call.df, call.year, call.min_flow)
    /\ call' = [call EXCEPT !.df =
                    CallersTable(PrepareMigrationFlowsStatements(
                                     call.df, call.year, call.min_flow), call.df)]
    /\ pc' = "done"
    /\ UNCHANGED sent

NextFlows == CallPrepareMigrationFlows

SpecFlows == InitFlows /\ [][NextFlows]_vars

(* ------------------- claims: prepare_migration_flows ------------------ *)

\* The calendar year a year cell of the model's tables denotes.
YearNumber(cell) ==
    IF cell = Some(<<"2", "0", "2", "0">>) THEN 2020 ELSE 2021

FlowsDone ==
    /\ pc = "done"
    /\ call.op = "prepare_migration_flows"
    /\ ret.kind = "return"
    /\ HasColumn(call.df, "countrycode")

\* Row i of the input counts for the call: all rows when no year is given
\* (or the table has no year column), else the rows of the given year.
FlowRowCounts(i) ==
    \/ IsNull(call.year)
    \/ ~HasColumn(call.df, "year")
    \/ YearNumber(call.df.rows[i].year) = Val(call.year)

\* The total of column col over the first n input rows that count and
\* belong to country c, nulls and an absent column counting as 0.
RECURSIVE FlowTotalUpTo(_, _, _)
FlowTotalUpTo(n, c, col) ==
    IF n = 0 THEN 0
    ELSE FlowTotalUpTo(n - 1, c, col)
         + (IF /\ call.df.rows[n].countrycode = c
               /\ FlowRowCounts(n)
               /\ HasColumn(call.df, col)
               /\ call.df.rows[n][col] # Null
            THEN call.df.rows[n][col][1] ELSE 0)

FlowTotal(c, col) == FlowTotalUpTo(Len(call.df.rows), c, col)

FlowCountryOccurs(c) ==
    \E i \in 1..Len(call.df.rows) :
        call.df.rows[i].countrycode = c /\ FlowRowCounts(i)

FlowResultRows == ret.value.rows

FlowInResult(c) ==
    \E j \in 1..Len(FlowResultRows) : FlowResultRows[j].countrycode = c

\* C1: among the countries of the table that have coordinates, a country
\* is in the result of prepare_migration_flows if and only if its summed
\* Immigration or its summed Emigration reaches min_flow (nulls count 0).
C1_FlowInclusion ==
    FlowsDone =>
        \A c \in DOMAIN country_coords :
            FlowCountryOccurs(c) =>
                (FlowInResult(c) <=>
                    \/ FlowTotal(c, "Immigration") >= call.min_flow
                    \/ FlowTotal(c, "Emigration") >= call.min_flow)

\* Threshold 50: a country with sums (60, 5) is in the result.
C1_Witness ==
    /\ FlowsDone
    /\ call.min_flow = 50
    /\ HasColumn(call.df, "Immigration") /\ HasColumn(call.df, "Emigration")
    /\ \E j \in 1..Len(FlowResultRows) :
          /\ FlowResultRows[j].Immigration = Some(60)
          /\ FlowResultRows[j].Emigration = Some(5)

\* C2: every record returned by prepare_migration_flows has a latitude and
\* a longitude, both non-null and those of the static table: a country
\* without coordinates is never returned, neither with null nor with (0, 0)
\* coordinates.
C2_CoordinatesPresent ==
    (pc = "done" /\ call.op = "prepare_migration_flows" /\ ret.kind = "return") =>
        \A j \in 1..Len(FlowResultRows) :
            /\ FlowResultRows[j].countrycode \in DOMAIN country_coords
            /\ FlowResultRows[j].lat # Null
            /\ FlowResultRows[j].lon # Null
            /\ <<FlowResultRows[j].lat, FlowResultRows[j].lon>> # <<Some(0), Some(0)>>

\* A country without coordinates ("XK") reaches the threshold and is left
\* out of a result that is not empty.
C2_Witness ==
    /\ FlowsDone
    /\ FlowCountryOccurs("XK")
    /\ FlowTotal("XK", "Immigration") >= call.min_flow
    /\ Len(FlowResultRows) > 0
    /\ ~FlowInResult("XK")

\* C3: prepare_migration_flows returns at most one record per country code;
\* its Immigration is the sum of Immigration over the country's rows (all
\* years without a year filter, else the rows of that year) and its
\* Emigration the sum of Emigration over the same rows.
C3_PerCountrySums ==
    FlowsDone =>
        /\ \A j, k \in 1..Len(FlowResultRows) :
              FlowResultRows[j].countrycode = FlowResultRows[k].countrycode
                  => j = k
        /\ \A j \in 1..Len(FlowResultRows) :
              /\ HasColumn(call.df, "Immigration") =>
                    FlowResultRows[j].Immigration =
                        Some(FlowTotal(FlowResultRows[j].countrycode, "Immigration"))
              /\ HasColumn(call.df, "Emigration") =>
                    FlowResultRows[j].Emigration =
                        Some(FlowTotal(FlowResultRows[j].countrycode, "Emigration"))

\* With a year filter, a country that has a row in each year is returned
\* with the volumes of the given year only.
C3_Witness ==
    /\ FlowsDone
    /\ call.year = Some(2021)
    /\ Len(call.df.rows) = 2
    /\ call.df.columns = <<"countrycode", "year", "Immigration", "Emigration">>
    /\ call.df.rows[1].countrycode = "NO" /\ call.df.rows[2].countrycode = "NO"
    /\ call.df.rows[1].year # call.df.rows[2].year
    /\ call.df.rows[1].Immigration = Some(30)
    /\ call.df.rows[2].Immigration = Some(20)
    /\ FlowInResult("NO")

(* ------------------- normaliser: parsing of cells --------------------- *)

Min(a, b) == IF a <= b THEN a ELSE b

\* The value of a digit string read as a decimal natural number.
RECURSIVE DigitsToNat(_)
DigitsToNat(ds) ==
    IF ds = <<>> THEN 0
    ELSE 10 * DigitsToNat(SubSeq(ds, 1, Len(ds) - 1)) + DigitValue(ds[Len(ds)])

AllDigits(s) == \A i \in 1..Len(s) : IsDigit(s[i])

\* The float m / 10^e, kept as a tagged decimal in lowest form (trailing
\* zeros removed), so that "1.0" and "1" are the same number.
RECURSIVE Decimal(_, _)
Decimal(m, e) ==
    IF e > 0 /\ m % 10 = 0 THEN Decimal(m \div 10, e - 1) ELSE <<"num", m, e>>

\* The cell holds a float (not a string, not NaN).
IsNumberCell(cell) ==
    NotNa(cell) /\ Len(Val(cell)) = 3 /\ Val(cell)[1] = "num"

\* pd.to_numeric(errors="ignore") on one token: what does not parse is
\* left as it is.
ToNumericIgnore(tok) ==
    IF tok # <<>> /\ AllDigits(tok) THEN Some(Decimal(DigitsToNat(tok), 0))
    ELSE Some(tok)

\* pd.to_numeric(errors="coerce") on one string token: an optional sign,
\* digits with at most one decimal point and at least one digit give the
\* number; every other token over the model's characters gives NaN.
ToNumeric(tok) ==
    LET signed == tok # <<>> /\ tok[1] \in {"-", "+"}
        body == IF signed THEN Tail(tok) ELSE tok
        dots == {i \in 1..Len(body) : body[i] = "."}
        int == IF dots = {} THEN body
               ELSE SubSeq(body, 1, (CHOOSE i \in dots : TRUE) - 1)
        frac == IF dots = {} THEN <<>>
                ELSE SubSeq(body, (CHOOSE i \in dots : TRUE) + 1, Len(body))
        ok == /\ Cardinality(dots) <= 1
              /\ AllDigits(int) /\ AllDigits(frac)
              /\ Len(int) + Len(frac) >= 1
        magnitude == DigitsToNat(int \o frac)
    IN  IF ~ok THEN Null
        ELSE IF signed /\ tok[1] = "-"
             THEN Some(Decimal(-magnitude, Len(frac)))
             ELSE Some(Decimal(magnitude, Len(frac)))

\* pd.to_numeric(series, errors="coerce") on one cell
ToNumericCell(cell) == IF IsNull(cell) THEN Null ELSE ToNumeric(Val(cell))

\* str.replace("M", "-") on one string
StrReplaceM(s) == [i \in 1..Len(s) |-> IF s[i] = "M" THEN "-" ELSE s[i]]

\* A month parse that keeps the two month digits without the range check.
ParseYearMonthAnyMonth(s) ==
    IF /\ Len(s) = 7
       /\ AllDigits(SubSeq(s, 1, 4)) /\ s[5] = "-" /\ AllDigits(SubSeq(s, 6, 7))
    THEN Some([year |-> DigitsToNat(SubSeq(s, 1, 4)),
               month |-> DigitsToNat(SubSeq(s, 6, 7)), day |-> 1])
    ELSE Null

\* pd.to_datetime(s, format="%Y-%m", errors="coerce") on one string: four
\* year digits, "-", and a month 1[0-2] | 0[1-9] | [1-9] give the first day
\* of the month; everything else gives NaT.
ParseYearMonth(s) ==
    LET month == SubSeq(s, 6, Len(s))
        m == DigitsToNat(month)
    IN  IF /\ Len(s) \in {6, 7}
           /\ AllDigits(SubSeq(s, 1, 4)) /\ s[5] = "-"
           /\ AllDigits(month)
           /\ m \in 1..12
        THEN Some([year |-> DigitsToNat(SubSeq(s, 1, 4)), month |-> m, day |-> 1])
        ELSE Null

\* pd.to_datetime(df["month"].str.replace("M", "-"), ...) on one cell
ToMonthCell(cell) ==
    IF IsNull(cell) THEN Null ELSE ParseYearMonth(StrReplaceM(Val(cell)))

(* ------------------- normaliser: pxweb_payload_to_df ------------------ *)

\* dict(zip(names, xs)): pairs up to the shorter of the two lists; the last
\* pair of a repeated name wins.
ZipDict(names, xs) ==
    LET n == Min(Len(names), Len(xs))
        last(c) == CHOOSE i \in 1..n :
                       names[i] = c /\ \A j \in (i + 1)..n : names[j] # c
    IN  [c \in {names[i] : i \in 1..n} |-> xs[last(c)]]

\* row.update(other)
DictUpdate(row, other) ==
    [c \in (DOMAIN row) \cup (DOMAIN other) |->
        IF c \in DOMAIN other THEN other[c] ELSE row[c]]

\* The row built from one data item (the body of the `for item` loop).
ItemRow(dim_cols, val_cols, item) ==
    DictUpdate(ZipDict(dim_cols, item.key), ZipDict(val_cols, item.values))

\* The columns of pd.DataFrame(rows): the keys of the rows in the order of
\* their first appearance.
RECURSIVE FrameColumns(_, _, _)
FrameColumns(rows, order, seen) ==
    IF rows = <<>> THEN seen
    ELSE LET isNew(c) == c \in DOMAIN Head(rows)
                         /\ \A i \in 1..Len(seen) : seen[i] # c
         IN  FrameColumns(Tail(rows), order, seen \o SelectSeq(order, isNew))

\* The distinct names of a list, in order.
RECURSIVE Distinct(_)
Distinct(names) ==
    IF names = <<>> THEN <<>>
    ELSE LET front == Distinct(SubSeq(names, 1, Len(names) - 1))
             lastName == names[Len(names)]
         IN  IF \E i \in 1..Len(front) : front[i] = lastName THEN front
             ELSE Append(front, lastName)

\* pd.DataFrame(rows) for a list of dicts: a key a row lacks is NaN there.
DataFrameOf(rows, order) ==
    LET columns == FrameColumns(rows, Distinct(order), <<>>)
    IN  Frame(columns,
              [i \in 1..Len(rows) |->
                  [c \in Range(columns) |->
                      IF c \in DOMAIN rows[i] THEN Some(rows[i][c]) ELSE Null]])

\* df[c] = <conversion>(df[c]) for one existing column c; the conversion is
\* to_numeric, to_datetime or the gender mapping.
MapColumn(df, c, conversion) ==
    LET convert(cell) ==
            CASE conversion = "to_numeric" -> ToNumericCell(cell)
              [] conversion = "to_datetime" -> ToMonthCell(cell)
              [] conversion = "gender" ->
                    (IF cell = Some("1") THEN Some("Male")
                     ELSE IF cell = Some("2") THEN Some("Female")
                     ELSE cell)
    IN  Frame(df.columns,
              [i \in 1..Len(df.rows) |->
                  [k \in DOMAIN df.rows[i] |->
                      IF k = c THEN convert(df.rows[i][k]) ELSE df.rows[i][k]]])

\* for c in cols: df[c] = pd.to_numeric(df[c], errors="coerce")
RECURSIVE CoerceColumns(_, _)
CoerceColumns(df, cols) ==
    IF cols = <<>> THEN df
    ELSE CoerceColumns(MapColumn(df, Head(cols), "to_numeric"), Tail(cols))

ColumnTexts(columns, types) ==
    LET ofType(c) == c.type \in types
        chosen == SelectSeq(columns, ofType)
    IN  [i \in 1..Len(chosen) |-> chosen[i].text]

\* pxweb_payload_to_df(payload): the outcome of the call.
PxwebPayloadToDf(payload) ==
    LET dim_cols == ColumnTexts(payload.columns, {"d", "t"})
        val_cols == ColumnTexts(payload.columns, {"c"})
        rows == [i \in 1..Len(payload.data) |->
                    ItemRow(dim_cols, val_cols, payload.data[i])]
        df == DataFrameOf(rows, dim_cols \o val_cols)
        dated == IF HasColumn(df, "month") THEN MapColumn(df, "month", "to_datetime")
                 ELSE df
    IN  IF \E i \in 1..Len(val_cols) : ~HasColumn(df, val_cols[i])
        THEN Raised("KeyError")
        ELSE Returned(CoerceColumns(dated, val_cols))

(* -------------- normaliser: pxweb_payload_to_migration_df ------------- *)

\* c.get("text") or c.get("code", ""): an absent text is "".
TextOrCode(c) == IF c.text # "" THEN c.text ELSE c.code

\* 'kön' in col.lower() or 'kon' in col.lower() or 'sex' in col.lower(),
\* over the column names that occur in the model.
NamesGender(col) == col \in {"kön", "Kon", "sex"}

\* 'år' in col.lower() or 'tid' in col.lower() or 'year' in col.lower(),
\* over the column names that occur in the model.
NamesYear(col) == col \in {"år", "Tid", "year"}

\* The first column of the list that is one of `matching`, or Null.
FirstColumn(columns, matching) ==
    LET hits == {i \in 1..Len(columns) : columns[i] \in matching}
    IN  IF hits = {} THEN Null
        ELSE Some(columns[CHOOSE i \in hits : \A j \in hits : i <= j])

\* The empty rename map, and a map of one column.
NoRename == [c \in {} |-> ""]

RenameTo(old, new) == [c \in {old} |-> new]

\* df.rename(columns=rename_map)
RenameAll(df, rename_map) ==
    LET newName(c) == IF c \in DOMAIN rename_map THEN rename_map[c] ELSE c
        oldName(n, r) == CHOOSE c \in DOMAIN r : newName(c) = n
    IN  Frame([i \in 1..Len(df.columns) |-> newName(df.columns[i])],
              [i \in 1..Len(df.rows) |->
                  [n \in {newName(c) : c \in DOMAIN df.rows[i]} |->
                      df.rows[i][oldName(n, df.rows[i])]]])

\* The rename map of lines 249-291 for a frame with these columns.
MigrationRenameMap(df) ==
    LET has(c) == HasColumn(df, c)
        countryColumn ==
            FirstColumn(df.columns, {c \in Range(df.columns) : NamesCountry(c)})
        genderColumn ==
            FirstColumn(df.columns, {c \in Range(df.columns) : NamesGender(c)})
        yearColumn ==
            FirstColumn(df.columns, {c \in Range(df.columns) : NamesYear(c)})
        country ==
            IF has("födelseland") THEN RenameTo("födelseland", "countrycode")
            ELSE IF has("Fodelseland") THEN RenameTo("Fodelseland", "countrycode")
            ELSE IF ~has("countrycode") /\ NotNa(countryColumn)
                 THEN RenameTo(Val(countryColumn), "countrycode")
            ELSE NoRename
        gender ==
            IF has("kön") THEN RenameTo("kön", "gender")
            ELSE IF has("Kon") THEN RenameTo("Kon", "gender")
            ELSE IF ~has("gender") /\ NotNa(genderColumn)
                 THEN RenameTo(Val(genderColumn), "gender")
            ELSE NoRename
        year ==
            IF has("år") THEN RenameTo("år", "year")
            ELSE IF has("Tid") THEN RenameTo("Tid", "year")
            ELSE IF ~has("year") /\ NotNa(yearColumn)
                 THEN RenameTo(Val(yearColumn), "year")
            ELSE NoRename
        immigration ==
            IF has("Invandringar") THEN RenameTo("Invandringar", "Immigration")
            ELSE IF has("BE0101M3") THEN RenameTo("BE0101M3", "Immigration")
            ELSE NoRename
        emigration ==
            IF has("Utvandringar") THEN RenameTo("Utvandringar", "Emigration")
            ELSE IF has("BE0101M4") THEN RenameTo("BE0101M4", "Emigration")
            ELSE NoRename
    IN  country @@ gender @@ year @@ immigration @@ emigration

\* for col in val_cols: if col in df.columns: df[col] = pd.to_numeric(...)
RECURSIVE CoercePresentColumns(_, _)
CoercePresentColumns(df, cols) ==
    IF cols = <<>> THEN df
    ELSE CoercePresentColumns(
             IF HasColumn(df, Head(cols))
             THEN MapColumn(df, Head(cols), "to_numeric") ELSE df,
             Tail(cols))

\* pxweb_payload_to_migration_df(payload): the outcome of the call.
PxwebPayloadToMigrationDf(payload) ==
    LET isDim(c) == c.type \in {"d", "t"} /\ TextOrCode(c) # ""
        isVal(c) == c.type = "c" /\ TextOrCode(c) # ""
        dims == SelectSeq(payload.columns, isDim)
        vals == SelectSeq(payload.columns, isVal)
        dim_cols == [i \in 1..Len(dims) |-> TextOrCode(dims[i])]
        dim_col_codes == [i \in 1..Len(dims) |-> dims[i].code]
        val_cols == [i \in 1..Len(vals) |-> TextOrCode(vals[i])]
        rows == [i \in 1..Len(payload.data) |->
                    ItemRow(dim_cols, val_cols, payload.data[i])]
        df == DataFrameOf(rows, dim_cols \o val_cols)
        \* lines 229-241: the country column found by its code
        unnamed == /\ ~HasColumn(df, "countrycode")
                   /\ ~HasColumn(df, "födelseland")
                   /\ ~HasColumn(df, "Fodelseland")
        codeAt == {i \in 1..Len(dim_col_codes) : dim_col_codes[i] = "Fodelseland"}
        idx == CHOOSE i \in codeAt : \A j \in codeAt : i <= j
        byCode == unnamed /\ codeAt # {}
        fromKey == byCode /\ ~HasColumn(df, dim_cols[idx])
        keyTooShort == \E i \in 1..Len(payload.data) :
                           Len(payload.data[i].key) < idx
        located ==
            IF ~byCode THEN df
            ELSE IF ~fromKey THEN Rename(df, dim_cols[idx], "countrycode")
            ELSE Frame(Append(df.columns, "countrycode"),
                       [i \in 1..Len(df.rows) |->
                           [c \in (DOMAIN df.rows[i]) \cup {"countrycode"} |->
                               IF c = "countrycode"
                               THEN Some(payload.data[i].key[idx])
                               ELSE df.rows[i][c]]])
    IN  IF fromKey /\ keyTooShort THEN Raised("IndexError")
        ELSE
        LET typed == CoercePresentColumns(located, val_cols)
            renamed == RenameAll(typed, MigrationRenameMap(typed))
        IN  Returned(IF HasColumn(renamed, "gender")
                     THEN MapColumn(renamed, "gender", "gender")
                     ELSE renamed)

(* -------------------- specification: the normalisers ------------------ *)

\* The largest number of data items of a payload.
MaxItems == 2

\* The columns of the CPI table as the wrapper names them: with the month,
\* without it, and with a second value column.
CpiColumns ==
    {<<[text |-> "Product group", type |-> "d"], [text |-> "month", type |-> "t"],
       [text |-> "Index", type |-> "c"]>>,
     <<[text |-> "Product group", type |-> "d"], [text |-> "Index", type |-> "c"]>>,
     <<[text |-> "Product group", type |-> "d"], [text |-> "month", type |-> "t"],
       [text |-> "Index", type |-> "c"], [text |-> "Weights", type |-> "c"]>>}

\* Keys of CPI data items: product-group code and month; one key lacks the
\* month and one has an element too many.
CpiKeys ==
    {<<<<"0", "1">>, <<"2", "0", "2", "0", "M", "0", "1">>>>,
     <<<<"0", "1", ".", "1">>, <<"2", "0", "2", "1", "M", "1", "2">>>>,
     <<<<"1", "2">>, <<"2", "0", "2", "0", "M", "1", "3">>>>,
     <<<<"0", "1">>>>,
     <<<<"0", "1">>, <<"2", "0", "2", "0", "M", "0", "1">>, <<"x">>>>}

\* Values of CPI data items: numeric tokens, the tokens ".." and "", no
\* value at all and two values.
CpiValues ==
    {<<>>,
     <<<<"-", "3", ".", "5">>>>,
     <<<<".", ".">>>>,
     <<<<"1", "2">>, <<>>>>}

CpiPayloads ==
    {[columns |-> c, data |-> d] :
        c \in CpiColumns,
        d \in SeqUpTo([key : CpiKeys, values : CpiValues], MaxItems)}

\* The columns of the migration table: as the Swedish API names them,
\* without texts (the codes name the columns) and with English texts.
MigrationColumns ==
    {<<[code |-> "Fodelseland", text |-> "födelseland", type |-> "d"],
       [code |-> "Kon", text |-> "kön", type |-> "d"],
       [code |-> "Tid", text |-> "år", type |-> "t"],
       [code |-> "BE0101M3", text |-> "Invandringar", type |-> "c"],
       [code |-> "BE0101M4", text |-> "Utvandringar", type |-> "c"]>>,
     <<[code |-> "Fodelseland", text |-> "", type |-> "d"],
       [code |-> "Kon", text |-> "", type |-> "d"],
       [code |-> "Tid", text |-> "", type |-> "t"],
       [code |-> "BE0101M3", text |-> "", type |-> "c"],
       [code |-> "BE0101M4", text |-> "", type |-> "c"]>>,
     <<[code |-> "Fodelseland", text |-> "country of birth", type |-> "d"],
       [code |-> "Kon", text |-> "sex", type |-> "d"],
       [code |-> "Tid", text |-> "year", type |-> "t"],
       [code |-> "BE0101M3", text |-> "Immigration", type |-> "c"],
       [code |-> "BE0101M4", text |-> "Emigration", type |-> "c"]>>}

\* Keys of migration data items: country, gender, year; malformed keys are
\* empty, lack the year or have an element too many.
MigrationKeys ==
    {<<"NO", "1", <<"2", "0", "2", "0">>>>,
     <<"XK", "2", <<"2", "0", "2", "1">>>>,
     <<"NO", "1">>,
     <<"NO", "1", <<"2", "0", "2", "0">>, "x">>,
     <<>>}

\* Values of migration data items: two tokens, or one value too few.
MigrationValues ==
    {<<<<"1", "2">>, <<"5">>>>,
     <<<<".", ".">>, <<>>>>,
     <<<<"1", "2">>>>}

MigrationPayloads ==
    {[columns |-> c, data |-> d] :
        c \in MigrationColumns,
        d \in SeqUpTo([key : MigrationKeys, values : MigrationValues], MaxItems)}

NormalizeCalls ==
    {[op |-> "pxweb_payload_to_df", payload |-> p] : p \in CpiPayloads}
    \cup {[op |-> "pxweb_payload_to_migration_df", payload |-> p] :
             p \in MigrationPayloads}

InitNormalize == pc = "ready" /\ call \in NormalizeCalls /\ ret = NoOutcome /\ sent = <<>>

CallPxwebPayloadToDf ==
    /\ pc = "ready"
    /\ call.op = "pxweb_payload_to_df"
    /\ ret' = PxwebPayloadToDf(call.payload)
    /\ pc' = "done"
    /\ UNCHANGED <<call, sent>>

CallPxwebPayloadToMigrationDf ==
    /\ pc = "ready"
    /\ call.op = "pxweb_payload_to_migration_df"
    /\ ret' = PxwebPayloadToMigrationDf(call.payload)
    /\ pc' = "done"
    /\ UNCHANGED <<call, sent>>

NextNormalize == CallPxwebPayloadToDf \/ CallPxwebPayloadToMigrationDf

SpecNormalize == InitNormalize /\ [][NextNormalize]_vars

(* ------------------------ claims: the normalisers --------------------- *)

NormalizeDone ==
    pc = "done" /\ call.op \in {"pxweb_payload_to_df", "pxweb_payload_to_migration_df"}

DeclaredCount(types) ==
    Cardinality({i \in 1..Len(call.payload.columns) :
                    call.payload.columns[i].type \in types})

\* Every data item has as many key elements as the payload declares
\* dimension and time columns and as many values as it declares value
\* columns.
ValidPayload ==
    \A i \in 1..Len(call.payload.data) :
        /\ Len(call.payload.data[i].key) = DeclaredCount({"d", "t"})
        /\ Len(call.payload.data[i].values) = DeclaredCount({"c"})

\* The column that holds the first key element in the normaliser's table.
FirstKeyColumn ==
    IF call.op = "pxweb_payload_to_df" THEN "Product group" ELSE "countrycode"

\* C4: for every payload whose items all have the declared key and values
\* lengths, the normaliser returns a table with exactly one row per data
\* item, in the order of the items.
C4_RowPerItem ==
    (NormalizeDone /\ ValidPayload) =>
        /\ ret.kind = "return"
        /\ Len(ret.value.rows) = Len(call.payload.data)
        /\ \A i \in 1..Len(call.payload.data) :
              ret.value.rows[i][FirstKeyColumn] = Some(call.payload.data[i].key[1])

\* C5: the normaliser fails, and returns no table, whenever a data item's
\* key or values length differs from the declared column counts.
C5_SchemaError ==
    (NormalizeDone /\ ~ValidPayload) => ret.kind = "raise"

ValueColumns == {"Index", "Weights", "Immigration", "Emigration"}

\* The token of value column number k of item i, when the item has one.
TokenAt(i, k) == call.payload.data[i].values[k]

\* The name in the returned table of value column number k.
ValueColumnName(k) ==
    IF call.op = "pxweb_payload_to_df"
    THEN ColumnTexts(call.payload.columns, {"c"})[k]
    ELSE <<"Immigration", "Emigration">>[k]

\* C6: every value column of the normaliser's table holds a number or null
\* in every row: the token "12" becomes 12, "-3.5" becomes -3.5, the tokens
\* ".." and "" become null; and no token makes the normaliser raise (a call
\* on a non-empty payload of the declared shape returns).
C6_NumericOrNull ==
    NormalizeDone =>
        /\ (ValidPayload /\ call.payload.data # <<>>) => ret.kind = "return"
        /\ ret.kind = "return" =>
              \A i \in 1..Len(ret.value.rows) :
                  /\ \A c \in ValueColumns \cap DOMAIN ret.value.rows[i] :
                        \/ ret.value.rows[i][c] = Null
                        \/ IsNumberCell(ret.value.rows[i][c])
                  /\ \A k \in 1..Min(Len(call.payload.data[i].values),
                                     DeclaredCount({"c"})) :
                        LET cell == ret.value.rows[i][ValueColumnName(k)]
                        IN  /\ TokenAt(i, k) = <<"1", "2">>
                                => (IsNumberCell(cell) /\ Val(cell) = <<"num", 12, 0>>)
                            /\ TokenAt(i, k) = <<"-", "3", ".", "5">>
                                => (IsNumberCell(cell) /\ Val(cell) = <<"num", -35, 1>>)
                            /\ TokenAt(i, k) \in {<<".", ".">>, <<>>}
                                => cell = Null

\* A returned table in which one row's token ".." became null and another
\* row's token "-3.5" became the number.
C6_Witness ==
    /\ NormalizeDone /\ ret.kind = "return"
    /\ call.op = "pxweb_payload_to_df"
    /\ Len(ret.value.rows) = 2
    /\ call.payload.data[1].values = <<<<".", ".">>>>
    /\ call.payload.data[2].values = <<<<"-", "3", ".", "5">>>>
    /\ ret.value.rows[1].Index = Null
    /\ IsNumberCell(ret.value.rows[2].Index)

\* The month token of data item i, when its key has one.
MonthToken(i) == call.payload.data[i].key[2]

\* C7: pxweb_payload_to_df turns a month "YYYYMnn" with nn in 01..12 into
\* the first day of that month ("2020M01", "2021M12") and a month that
\* does not parse ("2020M13") into a null date; every cell of the month
\* column is a date or null, and the month never makes the call raise.
C7_MonthParsed ==
    (pc = "done" /\ call.op = "pxweb_payload_to_df") =>
        /\ (ValidPayload /\ call.payload.data # <<>>) => ret.kind = "return"
        /\ (ret.kind = "return" /\ HasColumn(ret.value, "month")) =>
              \A i \in 1..Len(ret.value.rows) :
                  LET cell == ret.value.rows[i].month IN
                  /\ cell = Null \/ (DOMAIN Val(cell) = {"year", "month", "day"}
                                     /\ Val(cell).month \in 1..12
                                     /\ Val(cell).day = 1)
                  /\ Len(call.payload.data[i].key) >= 2 =>
                        /\ MonthToken(i) = <<"2", "0", "2", "0", "M", "0", "1">>
                            => cell = Some([year |-> 2020, month |-> 1, day |-> 1])
                        /\ MonthToken(i) = <<"2", "0", "2", "1", "M", "1", "2">>
                            => cell = Some([year |-> 2021, month |-> 12, day |-> 1])
                        /\ MonthToken(i) = <<"2", "0", "2", "0", "M", "1", "3">>
                            => cell = Null

\* A returned table with the month 2021M12 parsed in one row and the month
\* 2020M13 turned into a null date in another.
C7_Witness ==
    /\ pc = "done" /\ call.op = "pxweb_payload_to_df" /\ ret.kind = "return"
    /\ Len(ret.value.rows) = 2
    /\ HasColumn(ret.value, "month")
    /\ Len(call.payload.data[1].key) = 2
    /\ MonthToken(1) = <<"2", "0", "2", "0", "M", "1", "3">>
    /\ ret.value.rows[1].month = Null
    /\ ret.value.rows[2].month = Some([year |-> 2021, month |-> 12, day |-> 1])

(* ------------- hierarchical filter: filter_top_level_product_groups --- *)

\* re.match(r'^\d{2}', s): the pattern without its end anchor.
MatchTwoDigitsPrefix(s) ==
    Len(s) >= 2 /\ IsDigit(s[1]) /\ IsDigit(s[2])

\* re.match(r'^\d{2}$', s): two digits and then the end of the string, which
\* `$` also finds before a final newline.
MatchTwoDigits(s) ==
    /\ Len(s) >= 2 /\ IsDigit(s[1]) /\ IsDigit(s[2])
    /\ Len(s) = 2 \/ (Len(s) = 3 /\ s[3] = "\n")

\* Series.str.match(r'^\d{2}$', na=False) on one cell
StrMatchCell(cell) == IF IsNull(cell) THEN FALSE ELSE MatchTwoDigits(Val(cell))

\* A filter whose mask is one row out of step: row i is kept when row i + 1
\* matches.
FilterTopLevelShifted(df) ==
    IF ~HasColumn(df, "Product group") THEN df
    ELSE LET n == Len(df.rows)
             marked == [i \in 1..n |->
                           [row |-> df.rows[i],
                            keep |-> i < n
                                     /\ StrMatchCell(df.rows[Min(i + 1, n)]["Product group"])]]
             isKept(m) == m.keep
             kept == SelectSeq(marked, isKept)
         IN  Frame(df.columns, [i \in 1..Len(kept) |-> kept[i].row])

\* filter_top_level_product_groups(df)
FilterTopLevelProductGroups(df) ==
    IF ~HasColumn(df, "Product group") THEN df
    ELSE LET top(r) == StrMatchCell(r["Product group"])
         IN  Frame(df.columns, SelectSeq(df.rows, top))

\* The statements filter_top_level_product_groups(df) runs.
FilterTopLevelProductGroupsStatements(df) ==
    IF ~HasColumn(df, "Product group") THEN <<>>
    ELSE <<Select("result", "df"), Copy("result", "result")>>

(* ---------------- specification: the hierarchical filter -------------- *)

\* Product-group codes of the CPI table: top-level codes, deeper codes
\* with a separator, codes of one and of three characters, a code with a
\* letter, and a missing code.
ProductGroupCells ==
    {Null,
     Some(<<"0", "1">>), Some(<<"1", "2">>),
     Some(<<"0", "1", ".", "1">>),
     Some(<<"1">>), Some(<<"0", "1", "2">>),
     Some(<<"0", "a">>)}

IndexCells == {Some(Decimal(100, 0)), Some(Decimal(1005, 1))}

FilterTables ==
    {Frame(<<"Product group", "Index">>, rows) :
        rows \in SeqUpTo({("Product group" :> g) @@ ("Index" :> x) :
                              g \in ProductGroupCells, x \in IndexCells},
                         MaxRows)}
    \cup {Frame(<<"Index">>, rows) : rows \in SeqUpTo([Index : IndexCells], MaxRows)}

FilterCalls ==
    {[op |-> "filter_top_level_product_groups", df |-> d, of |-> d] :
        d \in FilterTables}

InitFilter == pc = "ready" /\ call \in FilterCalls /\ ret = NoOutcome /\ sent = <<>>

CallFilterTopLevelProductGroups ==
    /\ pc = "ready"
    /\ call.op = "filter_top_level_product_groups"
    /\ ret' = Returned(FilterTopLevelProductGroups(call.df))
    /\ call' = [call EXCEPT !.df =
                    CallersTable(FilterTopLevelProductGroupsStatements(call.df), call.df)]
    /\ pc' = "done"
    /\ UNCHANGED sent

\* The filter applied to a table it has already filtered (process_cpi_data
\* filters its argument unless told that it is filtered): `of` keeps the
\* table of the first call.
CallFilterTopLevelProductGroupsAgain ==
    /\ pc = "done"
    /\ call.op = "filter_top_level_product_groups"
    /\ call' = [op |-> call.op, df |-> ret.value, of |-> call.df]
    /\ ret' = Returned(FilterTopLevelProductGroups(ret.value))
    /\ pc' = "again"
    /\ UNCHANGED sent

NextFilter == CallFilterTopLevelProductGroups \/ CallFilterTopLevelProductGroupsAgain

SpecFilter == InitFilter /\ [][NextFilter]_vars

(* --------------------- claims: the hierarchical filter ---------------- *)

\* The code of the row is exactly two characters, both digits.
TwoDigitCode(r) ==
    /\ r["Product group"] # Null
    /\ Len(r["Product group"][1]) = 2
    /\ \A i \in 1..2 :
          r["Product group"][1][i] \in {"0", "1", "2", "3", "4", "5", "6", "7", "8", "9"}

\* C8: filter_top_level_product_groups returns exactly the input rows, in
\* input order, whose "Product group" code is two digit characters; rows
\* with a null code, a code of another length or a code with a separator
\* are removed.
C8_TopLevelRows ==
    (pc = "done" /\ call.op = "filter_top_level_product_groups"
        /\ HasColumn(call.df, "Product group")) =>
        /\ ret.kind = "return"
        /\ ret.value.columns = call.df.columns
        /\ ret.value.rows = SelectSeq(call.df.rows, TwoDigitCode)

\* A table whose first row has the code "01.1" and whose second row has the
\* code "12": the result is the second row alone.
C8_Witness ==
    /\ pc = "done" /\ call.op = "filter_top_level_product_groups"
    /\ HasColumn(call.df, "Product group")
    /\ Len(call.df.rows) = 2
    /\ call.df.rows[1]["Product group"] = Some(<<"0", "1", ".", "1">>)
    /\ call.df.rows[2]["Product group"] = Some(<<"1", "2">>)
    /\ ret.value.rows = <<call.df.rows[2]>>

\* C9: filter_top_level_product_groups is idempotent: the filter applied to
\* its own result returns the same rows in the same order.
C9_FilterIdempotent ==
    (pc = "again" /\ call.op = "filter_top_level_product_groups") =>
        ret.value = call.df

\* The second application, on the result of a first one that removed a row
\* and kept one.
C9_Witness ==
    /\ pc = "again" /\ call.op = "filter_top_level_product_groups"
    /\ Len(call.of.rows) > Len(call.df.rows)
    /\ Len(ret.value.rows) >= 1

(* ------------------ migration: calculate_net_migration ---------------- *)

\* A difference that takes a missing operand as 0.
SubCellsFill0(a, b) == Some(Val(FillNa0(a)) - Val(FillNa0(b)))

\* df["Immigration"] - df["Emigration"] on one row: NaN if either is NaN.
SubCells(a, b) ==
    IF IsNull(a) \/ IsNull(b) THEN Null ELSE Some(Val(a) - Val(b))

\* calculate_net_migration(df)
CalculateNetMigration(df) ==
    IF DfEmpty(df) THEN df
    ELSE IF HasColumn(df, "Immigration") /\ HasColumn(df, "Emigration")
    THEN Frame(WithColumn(df.columns, "net_migration"),
               [i \in 1..Len(df.rows) |->
                   [c \in (DOMAIN df.rows[i]) \cup {"net_migration"} |->
                       IF c = "net_migration"
                       THEN SubCells(df.rows[i].Immigration, df.rows[i].Emigration)
                       ELSE df.rows[i][c]]])
    ELSE df

\* df["Immigration"] - df["Emigration"] on the rows of the table.
NetCells(df) ==
    [i \in 1..Len(df.rows) |-> SubCells(df.rows[i].Immigration, df.rows[i].Emigration)]

\* The statements calculate_net_migration(df) runs.
CalculateNetMigrationStatements(df) ==
    IF DfEmpty(df) THEN <<>>
    ELSE <<Copy("df", "df")>>
         \o (IF HasColumn(df, "Immigration") /\ HasColumn(df, "Emigration")
             THEN <<Assign("df", "net_migration", NetCells(df))>>
             ELSE <<>>)

(* --------------- specification: calculate_net_migration --------------- *)

\* Volumes of single rows; an Emigration above the Immigration gives a
\* negative net migration.
NetImmigrationCells == {Null, Some(20), Some(30)}

NetEmigrationCells == {Null, Some(5), Some(50)}

NetTables ==
    {Frame(<<"countrycode", "Immigration", "Emigration">>, rows) :
        rows \in SeqUpTo([countrycode : {"NO", "XK"},
                          Immigration : NetImmigrationCells,
                          Emigration : NetEmigrationCells], MaxRows)}
    \cup {Frame(<<"countrycode", "Immigration">>, rows) :
        rows \in SeqUpTo([countrycode : {"NO", "XK"},
                          Immigration : NetImmigrationCells], MaxRows)}

NetCalls == {[op |-> "calculate_net_migration", df |-> d] : d \in NetTables}

InitNet == pc = "ready" /\ call \in NetCalls /\ ret = NoOutcome /\ sent = <<>>

CallCalculateNetMigration ==
    /\ pc = "ready"
    /\ call.op = "calculate_net_migration"
    /\ ret' = Returned(CalculateNetMigration(call.df))
    /\ call' = [call EXCEPT !.df =
                    CallersTable(CalculateNetMigrationStatements(call.df), call.df)]
    /\ pc' = "done"
    /\ UNCHANGED sent

NextNet == CallCalculateNetMigration

SpecNet == InitNet /\ [][NextNet]_vars

(* -------------------- claims: calculate_net_migration ----------------- *)

\* C10: on a non-empty table with both columns calculate_net_migration
\* returns the same rows, each with net_migration = Immigration -
\* Emigration, and with a null net_migration whenever Immigration or
\* Emigration is null.
C10_NetMigration ==
    (pc = "done" /\ call.op = "calculate_net_migration"
        /\ Len(call.df.rows) > 0
        /\ HasColumn(call.df, "Immigration") /\ HasColumn(call.df, "Emigration")) =>
        /\ ret.kind = "return"
        /\ Len(ret.value.rows) = Len(call.df.rows)
        /\ HasColumn(ret.value, "net_migration")
        /\ \A i \in 1..Len(call.df.rows) :
              LET in == call.df.rows[i]
                  out == ret.value.rows[i]
              IN  /\ \A c \in DOMAIN in : out[c] = in[c]
                  /\ (in.Immigration = Null \/ in.Emigration = Null)
                        => out.net_migration = Null
                  /\ (in.Immigration # Null /\ in.Emigration # Null)
                        => out.net_migration
                               = <<in.Immigration[1] - in.Emigration[1]>>

\* One row with a null Immigration and a null net migration, and one row
\* with volumes 20 and 50 and the net migration -30.
C10_Witness ==
    /\ pc = "done" /\ call.op = "calculate_net_migration"
    /\ Len(call.df.rows) = 2
    /\ HasColumn(ret.value, "net_migration")
    /\ call.df.rows[1].Immigration = Null
    /\ call.df.rows[1].Emigration = Some(5)
    /\ ret.value.rows[1].net_migration = Null
    /\ ret.value.rows[2].net_migration = Some(-30)

(* ------------------ CPI aggregator: numbers and labels ---------------- *)

RECURSIVE Gcd(_, _)
Gcd(a, b) == IF b = 0 THEN a ELSE Gcd(b, a % b)

Abs(n) == IF n < 0 THEN -n ELSE n

\* The float n / d of an observation column, kept as an exact fraction in
\* lowest terms with a positive denominator (the rounding of the float is
\* not modelled).
Q(n, d) ==
    LET g == Gcd(Abs(n), Abs(d))
        sign == IF d < 0 THEN -1 ELSE 1
    IN  <<"q", (sign * n) \div g, (sign * d) \div g>>

\* x * y
QMul(x, y) == Q(x[2] * y[2], x[3] * y[3])

\* x / k for a non-zero integer k
QDivInt(x, k) == Q(x[2], x[3] * k)

\* x + y
QAdd(x, y) == Q(x[2] * y[3] + y[2] * x[3], x[3] * y[3])

\* x - y
QSub(x, y) == Q(x[2] * y[3] - y[2] * x[3], x[3] * y[3])

\* x < y
QLt(x, y) == x[2] * y[3] < y[2] * x[3]

\* str.upper() on one character
UpperChar(ch) ==
    LET lower == <<"a", "b", "c", "d", "e", "f", "g", "h", "i", "j", "k", "l", "m",
                   "n", "o", "p", "q", "r", "s", "t", "u", "v", "w", "x", "y", "z">>
        upper == <<"A", "B", "C", "D", "E", "F", "G", "H", "I", "J", "K", "L", "M",
                   "N", "O", "P", "Q", "R", "S", "T", "U", "V", "W", "X", "Y", "Z">>
    IN  IF \E i \in 1..26 : lower[i] = ch
        THEN upper[CHOOSE i \in 1..26 : lower[i] = ch]
        ELSE ch

\* str.upper()
StrUpper(s) == [i \in 1..Len(s) |-> UpperChar(s[i])]

\* `sub in s`, the test of str.contains for a pattern without
\* metacharacters
StrContains(s, sub) ==
    \E i \in 1..(Len(s) - Len(sub) + 1) : SubSeq(s, i, i + Len(sub) - 1) = sub

\* The label of the aggregate product group.
TOTAL == <<"T", "O", "T", "A", "L">>

\* The label of a product group that is not the aggregate.
FOOD == <<"F", "O", "O", "D">>

\* The label of a group that is not the aggregate and contains "total".
SUBTOTAL == <<"S", "u", "b", "t", "o", "t", "a", "l">>

\* The test for the aggregate group without the upper-casing, against the
\* pattern in lower case.
ContainsTotalLower(cell) ==
    IF IsNull(cell) THEN FALSE
    ELSE StrContains(Val(cell), <<"t", "o", "t", "a", "l">>)

\* Series.str.upper().str.contains("TOTAL", na=False) on one cell
UpperContainsTotal(cell) ==
    IF IsNull(cell) THEN FALSE ELSE StrContains(StrUpper(Val(cell)), TOTAL)

\* The order of two Timestamps.
DateLt(a, b) ==
    \/ a.year < b.year
    \/ a.year = b.year /\ a.month < b.month
    \/ a.year = b.year /\ a.month = b.month /\ a.day < b.day

\* The earliest month instead of the latest.
MinMonth(df, idx) ==
    LET dated == {i \in Range(idx) : NotNa(df.rows[i].month)}
    IN  IF dated = {} THEN Null
        ELSE df.rows[CHOOSE i \in dated :
                        \A j \in dated :
                            ~DateLt(Val(df.rows[j].month), Val(df.rows[i].month))].month

\* Series.max() of the month column over the rows at the positions idx:
\* NaT is skipped, and the maximum of no date is NaT.
MaxMonth(df, idx) ==
    LET dated == {i \in Range(idx) : NotNa(df.rows[i].month)}
    IN  IF dated = {} THEN Null
        ELSE df.rows[CHOOSE i \in dated :
                        \A j \in dated :
                            ~DateLt(Val(df.rows[i].month), Val(df.rows[j].month))].month

\* df[df["month"] == latest_month] over the positions idx: a comparison
\* with NaT is false on every row.
AtMonth(df, idx, latest_month) ==
    LET same(i) == NotNa(latest_month) /\ df.rows[i].month = latest_month
    IN  SelectSeq(idx, same)

\* The positions 1..n of the rows of a table, in order.
Positions(df) == [i \in 1..Len(df.rows) |-> i]

\* A table with the index labels of its rows: the positions that the rows
\* have in the table they were selected from.
IndexedFrame(columns, rows, index) ==
    [columns |-> columns, rows |-> rows, index |-> index]

\* df.loc[idx][columns]: the rows at the positions idx, restricted to the
\* columns, with their index labels.
Take(df, idx, columns) ==
    IndexedFrame(columns,
                 [k \in 1..Len(idx) |-> [c \in Range(columns) |-> df.rows[idx[k]][c]]],
                 idx)

(* ------------------ CPI aggregator: ranking of rows ------------------- *)

\* DataFrame.nlargest(n, col) with keep="first" over the positions idx,
\* where val[i] is the non-null value of row i: a stable descending sort
\* (earlier rows first among equal values), cut after n rows.
NLargest(idx, val, n) ==
    LET len == Len(idx)
        before(j, i) == \/ QLt(val[idx[i]], val[idx[j]])
                        \/ val[idx[i]] = val[idx[j]] /\ j < i
        rank(i) == Cardinality({j \in 1..len : before(j, i)}) + 1
        sorted == [k \in 1..len |-> idx[CHOOSE i \in 1..len : rank(i) = k]]
    IN  SubSeq(sorted, 1, Min(IF n < 0 THEN 0 ELSE n, len))

\* DataFrame.sort_values(col, ascending=False) over the positions idx.  The
\* default kind is "quicksort", which is not stable: every arrangement of
\* idx with non-increasing values is a possible result.
SortValuesDesc(idx, val) ==
    LET len == Len(idx)
        perms == {p \in [1..len -> 1..len] : \A i, j \in 1..len : i # j => p[i] # p[j]}
    IN  {[k \in 1..len |-> idx[p[k]]] :
            p \in {p \in perms :
                     \A k \in 1..(len - 1) : ~QLt(val[idx[p[k]]], val[idx[p[k + 1]]])}}

(* --------------- CPI aggregator: get_top_categories_by_weight --------- *)

\* The value of an observation column at every position of the table (0 at
\* the null cells, which the callers have filtered out).
ColumnValues(df, col) ==
    [i \in 1..Len(df.rows) |->
        IF NotNa(df.rows[i][col]) THEN Val(df.rows[i][col]) ELSE Q(0, 1)]

\* get_top_categories_by_weight(df, top_n): the set of tables the call can
\* return (the final sort may arrange equal Weights in any order).
GetTopCategoriesByWeight(df, top_n) ==
    IF \/ DfEmpty(df)
       \/ ~HasColumn(df, "Weights")
       \/ ~HasColumn(df, "Product group_label")
    THEN {EmptyFrame}
    ELSE LET hasWeights(i) == NotNa(df.rows[i].Weights)
             notTotal(i) == ~UpperContainsTotal(df.rows[i]["Product group_label"])
             weights_data == SelectSeq(SelectSeq(Positions(df), hasWeights), notTotal)
             latest_data ==
                 IF HasColumn(df, "month")
                 THEN AtMonth(df, weights_data, MaxMonth(df, weights_data))
                 ELSE weights_data
             val == ColumnValues(df, "Weights")
         IN  IF weights_data = <<>> THEN {EmptyFrame}
             ELSE {Take(df, sorted, <<"Product group_label", "Weights">>) :
                      sorted \in SortValuesDesc(NLargest(latest_data, val, top_n), val)}

(* ---------------- CPI aggregator: get_top_inflation_drivers ----------- *)

\* The product of the two observations without the division by 100.
ContributionOfPercent(annual, weight) == QMul(annual, weight)

\* (Annual changes * Weights) / 100 on one row
ContributionOf(annual, weight) == QDivInt(QMul(annual, weight), 100)

\* The Contribution of every row of the table (0 where an input is null;
\* the callers have filtered those rows out).
Contributions(df) ==
    [i \in 1..Len(df.rows) |->
        IF NotNa(df.rows[i]["Annual changes"]) /\ NotNa(df.rows[i].Weights)
        THEN ContributionOf(Val(df.rows[i]["Annual changes"]), Val(df.rows[i].Weights))
        ELSE Q(0, 1)]

\* The rows at the positions idx with the Contribution column added,
\* restricted to the columns, with their index labels.
TakeWithContribution(df, idx, columns) ==
    LET contribution == Contributions(df)
    IN  IndexedFrame(columns,
                     [k \in 1..Len(idx) |->
                         [c \in Range(columns) |->
                             IF c = "Contribution" THEN Some(contribution[idx[k]])
                             ELSE df.rows[idx[k]][c]]],
                     idx)

\* get_top_inflation_drivers(df, top_n): the set of tables the call can
\* return (the final sort may arrange equal Contributions in any order).
GetTopInflationDrivers(df, top_n) ==
    IF \/ DfEmpty(df)
       \/ ~HasColumn(df, "Annual changes") \/ ~HasColumn(df, "Weights")
       \/ ~HasColumn(df, "Product group_label")
    THEN {EmptyFrame}
    ELSE LET hasBoth(i) == /\ NotNa(df.rows[i]["Annual changes"])
                           /\ NotNa(df.rows[i].Weights)
             notTotal(i) == ~UpperContainsTotal(df.rows[i]["Product group_label"])
             driver_data == SelectSeq(SelectSeq(Positions(df), hasBoth), notTotal)
             latest_data ==
                 IF HasColumn(df, "month")
                 THEN AtMonth(df, driver_data, MaxMonth(df, driver_data))
                 ELSE driver_data
             val == Contributions(df)
         IN  IF driver_data = <<>> THEN {EmptyFrame}
             ELSE {TakeWithContribution(df, sorted,
                       <<"Product group_label", "Contribution", "Annual changes", "Weights">>) :
                      sorted \in SortValuesDesc(NLargest(latest_data, val, top_n), val)}

(* ------------- CPI aggregator: calculate_inflation_contributions ------ *)

\* A membership test that accepts every label.
IsInAny(cell, selected_groups) == NotNa(cell)

\* Series.isin(selected_groups) on one cell
IsIn(cell, selected_groups) == NotNa(cell) /\ Val(cell) \in selected_groups

\* The table the operation works on: filtered to the top-level groups
\* unless the caller says that it is filtered already.
TopLevelUnlessFiltered(df, already_filtered_top_level) ==
    IF already_filtered_top_level THEN df ELSE FilterTopLevelProductGroups(df)

\* calculate_inflation_contributions(df, selected_groups,
\* already_filtered_top_level): the outcome of the call.  A table without
\* one of the columns that are read raises KeyError.
CalculateInflationContributions(df0, selected_groups, already_filtered_top_level) ==
    LET df == TopLevelUnlessFiltered(df0, already_filtered_top_level)
        labelled == HasColumn(df, "Product group_label")
        keep(r) == /\ labelled => IsIn(r["Product group_label"], selected_groups)
                   /\ NotNa(r["Annual changes"])
                   /\ NotNa(r.Weights)
        df_filtered == Frame(df.columns, SelectSeq(df.rows, keep))
        columns == <<"month", "Product group_label", "Contribution",
                     "Annual changes", "Weights">>
    IN  IF ~HasColumn(df, "Annual changes") \/ ~HasColumn(df, "Weights")
        THEN Raised("KeyError")
        ELSE IF DfEmpty(df_filtered) THEN Returned(EmptyFrame)
        ELSE IF ~HasColumn(df, "month") \/ ~labelled THEN Raised("KeyError")
        ELSE Returned(Frame(columns,
                 [k \in 1..Len(df_filtered.rows) |->
                     LET r == df_filtered.rows[k]
                     IN  [c \in Range(columns) |->
                             IF c = "Contribution"
                             THEN Some(ContributionOf(Val(r["Annual changes"]),
                                                     Val(r.Weights)))
                             ELSE r[c]]]))

(* -------------------- CPI aggregator: prepare_heatmap_data ------------ *)

\* The labels of the model in Python's string order (groupby sorts its
\* keys).
LabelOrder == <<<<"0", "4">>, FOOD, TOTAL>>

\* Series.dt.year on one cell: NaN for NaT.
YearOf(month) == IF IsNull(month) THEN Null ELSE Some(Val(month).year)

\* The sum of the non-null cells of a column of the rows.
RECURSIVE SumColumn(_, _)
SumColumn(rows, col) ==
    IF rows = <<>> THEN Q(0, 1)
    ELSE QAdd(Val(Head(rows)[col]), SumColumn(Tail(rows), col))

\* Series.mean() of a column of a group of rows without null cells.
MeanColumn(rows, col) == QDivInt(SumColumn(rows, col), Len(rows))

\* The rows of group g in year y.
RowsOfGroupYear(rows, g, y) ==
    LET inCell(r) == r["Product group_label"] = Some(g) /\ YearOf(r.month) = Some(y)
    IN  SelectSeq(rows, inCell)

\* A cell of the matrix that shows 0 where the group has no observation.
HeatmapCellZero(rows, g, y) ==
    LET group == RowsOfGroupYear(rows, g, y)
    IN  IF group = <<>> THEN Some(Q(0, 1))
        ELSE Some(MeanColumn(group, "Annual changes"))

\* The cell (g, y) of groupby(["Product group_label", "year"]).mean()
\* pivoted to groups x years: the mean of the group's rows of the year, and
\* NaN where the group has no row in the year.
HeatmapCell(rows, g, y) ==
    LET group == RowsOfGroupYear(rows, g, y)
    IN  IF group = <<>> THEN Null
        ELSE Some(MeanColumn(group, "Annual changes"))

\* The years of the rows in ascending order (rows without a year form no
\* group).
SortedYears(rows) ==
    LET years == {Val(YearOf(rows[i].month)) :
                     i \in {j \in 1..Len(rows) : NotNa(rows[j].month)}}
        rank(y) == Cardinality({x \in years : x < y}) + 1
    IN  [k \in 1..Cardinality(years) |-> CHOOSE y \in years : rank(y) = k]

\* The labels of the rows that have a year, in sorted order.
SortedLabels(rows) ==
    LET present(g) == \E i \in 1..Len(rows) :
                          /\ rows[i]["Product group_label"] = Some(g)
                          /\ NotNa(rows[i].month)
    IN  SelectSeq(LabelOrder, present)

\* prepare_heatmap_data(df, selected_groups, already_filtered_top_level):
\* the outcome of the call.  The matrix has the group labels as index, the
\* years as columns, and one row of cells per group.
PrepareHeatmapData(df0, selected_groups, already_filtered_top_level) ==
    LET df == TopLevelUnlessFiltered(df0, already_filtered_top_level)
        labelled == HasColumn(df, "Product group_label")
        keep(r) == /\ labelled => IsIn(r["Product group_label"], selected_groups)
                   /\ NotNa(r["Annual changes"])
        df_filtered == Frame(df.columns, SelectSeq(df.rows, keep))
        years == SortedYears(df_filtered.rows)
        labels == SortedLabels(df_filtered.rows)
    IN  IF ~HasColumn(df, "Annual changes") THEN Raised("KeyError")
        ELSE IF DfEmpty(df_filtered) THEN Returned(EmptyFrame)
        ELSE IF ~HasColumn(df, "month") THEN Returned(EmptyFrame)
        ELSE IF ~labelled THEN Returned(EmptyFrame)
        ELSE Returned(IndexedFrame(
                 years,
                 [k \in 1..Len(labels) |->
                     [y \in Range(years) |-> HeatmapCell(df_filtered.rows, labels[k], y)]],
                 labels))

(* ----------------- CPI aggregator: calculate_inflation_impact --------- *)

\* df["Product group_label"] == "TOTAL" on one cell
IsTotalLabel(cell) == cell = Some(TOTAL)

\* The rows of every group, whatever the labels are.
TotalDataAll(df) == Positions(df)

\* The rows labelled "TOTAL", without the fallback to the other groups.
TotalDataNoFallback(df) ==
    LET isTotal(i) == IsTotalLabel(df.rows[i]["Product group_label"])
    IN  IF HasColumn(df, "Product group_label")
        THEN SelectSeq(Positions(df), isTotal)
        ELSE Positions(df)

\* total_data: the positions of the rows labelled "TOTAL"; all rows when
\* no row is labelled "TOTAL" or the table has no label column.
TotalData(df) ==
    LET isTotal(i) == IsTotalLabel(df.rows[i]["Product group_label"])
        total == SelectSeq(Positions(df), isTotal)
    IN  IF HasColumn(df, "Product group_label")
        THEN IF total = <<>> THEN Positions(df) ELSE total
        ELSE Positions(df)

\* base_index of the base year 2020
BaseIndex == 100

\* calculate_inflation_impact(base_amount, df): the outcome of the call,
\* None (null) or the result dictionary.  A null latest index makes the two
\* amounts null (NaN).
CalculateInflationImpact(base_amount, df) ==
    LET total_data == TotalData(df)
        latest_month == MaxMonth(df, total_data)
        latest_data == AtMonth(df, total_data, latest_month)
        latest_index == df.rows[latest_data[1]].Index
    IN  IF DfEmpty(df) \/ ~HasColumn(df, "Index") THEN Returned(Null)
        ELSE IF total_data = <<>> \/ ~HasColumn(df, "month") THEN Returned(Null)
        ELSE IF latest_data = <<>> THEN Returned(Null)
        ELSE Returned(Some(
                 [current_amount |->
                      IF IsNull(latest_index) THEN Null
                      ELSE Some(QMul(Q(base_amount, 1),
                                     QDivInt(Val(latest_index), BaseIndex))),
                  latest_index |-> latest_index,
                  latest_month |-> latest_month,
                  total_inflation |->
                      IF IsNull(latest_index) THEN Null
                      ELSE Some(QMul(QDivInt(QSub(Val(latest_index), Q(BaseIndex, 1)),
                                             BaseIndex),
                                     Q(100, 1)))]))

(* ------- CPI aggregator: process_cpi_data, process_weights_data ------- *)

\* The rows with the year of their month in the added column "year".
WithYear(rows) ==
    [i \in 1..Len(rows) |->
        [c \in (DOMAIN rows[i]) \cup {"year"} |->
            IF c = "year" THEN YearOf(rows[i].month) ELSE rows[i][c]]]

\* groupby("year", as_index=False)["Weights"].mean(): one row per year in
\* ascending order.
WeightsByYear(rows) ==
    LET years == SortedYears(rows)
    IN  [k \in 1..Len(years) |->
            LET inYear(r) == YearOf(r.month) = Some(years[k])
            IN  [year |-> Some(years[k]),
                 Weights |-> Some(MeanColumn(SelectSeq(rows, inYear), "Weights"))]]

\* groupby(["year", "Product group_label"], as_index=False)["Weights"]
\* .mean(): one row per year and group that occur together, sorted by year
\* and then by label.
WeightsByYearAndGroup(rows) ==
    LET years == SortedYears(rows)
        n == Len(LabelOrder)
        keys == [k \in 1..(Len(years) * n) |->
                    [year |-> years[((k - 1) \div n) + 1],
                     label |-> LabelOrder[((k - 1) % n) + 1]]]
        occurs(key) == RowsOfGroupYear(rows, key.label, key.year) # <<>>
        groups == SelectSeq(keys, occurs)
    IN  [k \in 1..Len(groups) |->
            ("Product group_label" :> Some(groups[k].label))
            @@ [year |-> Some(groups[k].year),
                Weights |-> Some(MeanColumn(
                    RowsOfGroupYear(rows, groups[k].label, groups[k].year),
                    "Weights"))]]

\* process_cpi_data(df, selected_groups, selected_observations,
\* already_filtered_top_level): the outcome of the call (the argument
\* selected_observations is not read).  The weights are selected through
\* the label and the Weights column, and a table without one of them
\* raises KeyError.
ProcessCpiData(df0, selected_groups, already_filtered_top_level) ==
    LET df == TopLevelUnlessFiltered(df0, already_filtered_top_level)
        labelled == HasColumn(df, "Product group_label")
        selected(r) == IsIn(r["Product group_label"], selected_groups)
        df_filtered == IF labelled THEN Frame(df.columns, SelectSeq(df.rows, selected))
                       ELSE df
        index_data == IF HasColumn(df_filtered, "Index") THEN df_filtered ELSE EmptyFrame
        weighted(r) == selected(r) /\ NotNa(r.Weights)
        weights_rows == SelectSeq(df_filtered.rows, weighted)
        aggregated == weights_rows # <<>> /\ HasColumn(df, "month")
    IN  IF ~labelled \/ ~HasColumn(df, "Weights") THEN Raised("KeyError")
        ELSE Returned(
                 [filtered |-> df_filtered,
                  index_data |-> index_data,
                  weights_data |->
                      IF aggregated
                      THEN Frame(WithColumn(df.columns, "year"), WithYear(weights_rows))
                      ELSE Frame(df.columns, weights_rows),
                  weights_by_year |->
                      IF aggregated
                      THEN Frame(<<"year", "Weights">>, WeightsByYear(weights_rows))
                      ELSE EmptyFrame])

\* process_weights_data(df, selected_groups, already_filtered_top_level):
\* the outcome of the call.  A table without the Weights column raises
\* KeyError.
ProcessWeightsData(df0, selected_groups, already_filtered_top_level) ==
    LET df == TopLevelUnlessFiltered(df0, already_filtered_top_level)
        labelled == HasColumn(df, "Product group_label")
        weighted(r) == /\ labelled => IsIn(r["Product group_label"], selected_groups)
                       /\ NotNa(r.Weights)
        weights_rows == SelectSeq(df.rows, weighted)
    IN  IF ~HasColumn(df, "Weights") THEN Raised("KeyError")
        ELSE IF weights_rows = <<>> \/ ~HasColumn(df, "month") THEN Returned(EmptyFrame)
        ELSE IF labelled
        THEN Returned(Frame(<<"year", "Product group_label", "Weights">>,
                            WeightsByYearAndGroup(weights_rows)))
        ELSE Returned(Frame(<<"year", "Weights">>, WeightsByYear(weights_rows)))

(* --------------- CPI aggregator: the statements of a call ------------- *)

\* x["month"].dt.year on the rows of the table.
MonthYearCells(df) == [i \in 1..Len(df.rows) |-> YearOf(df.rows[i].month)]

\* (x["Annual changes"] * x["Weights"]) / 100 on the rows of the table: NaN
\* where an operand is NaN.
ContributionCells(df) ==
    [i \in 1..Len(df.rows) |->
        IF NotNa(df.rows[i]["Annual changes"]) /\ NotNa(df.rows[i].Weights)
        THEN Some(ContributionOf(Val(df.rows[i]["Annual changes"]), Val(df.rows[i].Weights)))
        ELSE Null]

\* The statements get_top_categories_by_weight(df, top_n) runs.
GetTopCategoriesByWeightStatements(df, top_n) ==
    IF \/ DfEmpty(df)
       \/ ~HasColumn(df, "Weights")
       \/ ~HasColumn(df, "Product group_label")
    THEN <<>>
    ELSE <<Select("weights_data", "df"), Copy("weights_data", "weights_data"),
           Select("weights_data", "weights_data")>>
         \o (IF GetTopCategoriesByWeight(df, top_n) = {EmptyFrame} THEN <<>>
             ELSE (IF HasColumn(df, "month")
                   THEN <<Select("latest_data", "weights_data"),
                          Copy("latest_data", "latest_data")>>
                   ELSE <<Copy("latest_data", "weights_data")>>)
                  \o <<Select("top_categories", "latest_data")>>)

\* The statements get_top_inflation_drivers(df, top_n) runs.
GetTopInflationDriversStatements(df, top_n) ==
    IF \/ DfEmpty(df)
       \/ ~HasColumn(df, "Annual changes") \/ ~HasColumn(df, "Weights")
       \/ ~HasColumn(df, "Product group_label")
    THEN <<>>
    ELSE <<Select("driver_data", "df"), Copy("driver_data", "driver_data"),
           Select("driver_data", "driver_data")>>
         \o (IF GetTopInflationDrivers(df, top_n) = {EmptyFrame} THEN <<>>
             ELSE (IF HasColumn(df, "month")
                   THEN <<Select("latest_data", "driver_data"),
                          Copy("latest_data", "latest_data")>>
                   ELSE <<Copy("latest_data", "driver_data")>>)
                  \o <<Assign("latest_data", "Contribution", ContributionCells(df)),
                       Select("top_drivers", "latest_data")>>)

\* df = filter_top_level_product_groups(df), unless the caller says that the
\* table is filtered: the filter returns its argument or a table of its own.
TopLevelStatements(df, already_filtered_top_level) ==
    IF already_filtered_top_level THEN <<>>
    ELSE IF ~HasColumn(df, "Product group") THEN <<Same("df", "df")>>
    ELSE <<Select("df", "df")>>

\* The statements calculate_inflation_contributions runs, up to the return
\* or raise that ends the call.
CalculateInflationContributionsStatements(df, selected_groups, already_filtered_top_level) ==
    LET out == CalculateInflationContributions(df, selected_groups,
                                               already_filtered_top_level)
        filtered == TopLevelStatements(df, already_filtered_top_level)
    IN  IF ~HasColumn(df, "Annual changes") \/ ~HasColumn(df, "Weights") THEN filtered
        ELSE filtered
             \o <<Select("df_filtered", "df"), Copy("df_filtered", "df_filtered")>>
             \o (IF out = Returned(EmptyFrame) THEN <<>>
                 ELSE <<Assign("df_filtered", "Contribution", ContributionCells(df))>>
                      \o (IF out.kind = "raise" THEN <<>>
                          ELSE <<Select("result", "df_filtered"),
                                 Copy("result", "result")>>))

\* The statements prepare_heatmap_data runs, up to the return or raise that
\* ends the call.
PrepareHeatmapDataStatements(df, selected_groups, already_filtered_top_level) ==
    LET top == TopLevelUnlessFiltered(df, already_filtered_top_level)
        labelled == HasColumn(df, "Product group_label")
        keep(r) == /\ labelled => IsIn(r["Product group_label"], selected_groups)
                   /\ NotNa(r["Annual changes"])
        filtered == TopLevelStatements(df, already_filtered_top_level)
    IN  IF ~HasColumn(df, "Annual changes") THEN filtered
        ELSE filtered
             \o <<Select("df_filtered", "df"), Copy("df_filtered", "df_filtered")>>
             \o (IF SelectSeq(top.rows, keep) = <<>> \/ ~HasColumn(df, "month") THEN <<>>
                 ELSE <<Assign("df_filtered", "year", MonthYearCells(df))>>
                      \o (IF labelled
                          THEN <<Select("yearly_data", "df_filtered"),
                                 Select("heatmap_data", "yearly_data")>>
                          ELSE <<>>))

\* The statements process_cpi_data runs, up to the return or raise that ends
\* the call.
ProcessCpiDataStatements(df, selected_groups, already_filtered_top_level) ==
    LET out == ProcessCpiData(df, selected_groups, already_filtered_top_level)
        labelled == HasColumn(df, "Product group_label")
    IN  TopLevelStatements(df, already_filtered_top_level)
        \o (IF labelled
            THEN <<Select("df_filtered", "df"), Copy("df_filtered", "df_filtered")>>
            ELSE <<Copy("df_filtered", "df")>>)
        \o (IF HasColumn(df, "Index") THEN <<Copy("index_data", "df_filtered")>> ELSE <<>>)
        \o (IF out.kind = "raise" THEN <<>>
            ELSE <<Select("weights_data", "df_filtered"),
                   Copy("weights_data", "weights_data")>>
                 \o (IF out.value.weights_by_year = EmptyFrame THEN <<>>
                     ELSE <<Assign("weights_data", "year", MonthYearCells(df)),
                            Select("weights_by_year", "weights_data")>>))

\* The statements process_weights_data runs, up to the return or raise that
\* ends the call.
ProcessWeightsDataStatements(df, selected_groups, already_filtered_top_level) ==
    LET out == ProcessWeightsData(df, selected_groups, already_filtered_top_level)
    IN  TopLevelStatements(df, already_filtered_top_level)
        \o (IF out.kind = "raise" THEN <<>>
            ELSE <<Select("weights_data", "df"), Copy("weights_data", "weights_data")>>
                 \o (IF out = Returned(EmptyFrame) THEN <<>>
                     ELSE <<Assign("weights_data", "year", MonthYearCells(df)),
                            Select("weights_by_year", "weights_data")>>))

(* ------------------ specification: the CPI aggregator ----------------- *)

\* Labels of product groups: the aggregate group, a named group, and a
\* group whose label fell back to its code.
CpiLabels == {Some(TOTAL), Some(FOOD), Some(<<"0", "4">>)}

Month(y, m) == Some([year |-> y, month |-> m, day |-> 1])

WeightCells == {Null, Some(Q(10, 1)), Some(Q(30, 1))}

\* A row of a CPI table.
LabelCol(l) == "Product group_label" :> l

\* Tables for the ranking by weight: rows of two months, one row with an
\* unparsed month and one of a group whose label contains "total"; tables without the month column; and tables that lack
\* the label or the Weights column.
WeightTables ==
    {Frame(<<"Product group_label", "month", "Weights">>, rows) :
        rows \in SeqUpTo(
            {LabelCol(l) @@ [month |-> m, Weights |-> w] :
                l \in CpiLabels, m \in {Month(2021, 12), Month(2022, 1)},
                w \in WeightCells}
            \cup {LabelCol(Some(FOOD)) @@ [month |-> Null, Weights |-> Some(Q(30, 1))],
                  LabelCol(Some(SUBTOTAL))
                      @@ [month |-> Month(2022, 1), Weights |-> Some(Q(30, 1))]},
            MaxRows)}
    \cup {Frame(<<"Product group_label", "Weights">>, rows) :
        rows \in SeqUpTo({LabelCol(l) @@ [Weights |-> w] :
                             l \in CpiLabels, w \in WeightCells}, MaxRows)}
    \cup {Frame(<<"Product group_label", "month">>, rows) :
        rows \in SeqUpTo({LabelCol(l) @@ [month |-> Month(2022, 1)] :
                             l \in CpiLabels}, MaxRows)}
    \cup {Frame(<<"month", "Weights">>, rows) :
        rows \in SeqUpTo([month : {Month(2022, 1)}, Weights : WeightCells], MaxRows)}

\* top_n: the rank cut-off (the dashboard asks for the top 5, more than the
\* tables of the model have rows).
TopNs == {1, 5}

\* Pairs of Annual changes and Weights: a missing rate, a missing weight, a
\* falling price, and two pairs with the same Contribution 0.2.
DriverCells ==
    {[a |-> Null, w |-> Some(Q(10, 1))],
     [a |-> Some(Q(2, 1)), w |-> Null],
     [a |-> Some(Q(2, 1)), w |-> Some(Q(10, 1))],
     [a |-> Some(Q(1, 1)), w |-> Some(Q(20, 1))],
     [a |-> Some(Q(-1, 1)), w |-> Some(Q(30, 1))]}

DriverRow(l, m, x) ==
    LabelCol(l) @@ ("Annual changes" :> x.a) @@ [month |-> m, Weights |-> x.w]

\* Tables for the ranking by Contribution: rows of two groups in two
\* months, rows of TOTAL (one with the largest Contribution), one row of a
\* group whose label contains "total", and one row
\* with an unparsed month; tables without the month column; and tables
\* that lack one of the three columns the ranking needs.
DriverTables ==
    {Frame(<<"Product group_label", "month", "Annual changes", "Weights">>, rows) :
        rows \in SeqUpTo(
            {DriverRow(l, m, x) :
                l \in CpiLabels \ {Some(TOTAL)},
                m \in {Month(2021, 12), Month(2022, 1)}, x \in DriverCells}
            \cup {DriverRow(Some(TOTAL), Month(2022, 1),
                            [a |-> Some(Q(2, 1)), w |-> Some(Q(30, 1))]),
                  DriverRow(Some(FOOD), Null,
                            [a |-> Some(Q(2, 1)), w |-> Some(Q(30, 1))]),
                  DriverRow(Some(SUBTOTAL), Month(2022, 1),
                            [a |-> Some(Q(2, 1)), w |-> Some(Q(30, 1))])},
            MaxRows)}
    \cup {Frame(<<"Product group_label", "Annual changes", "Weights">>, rows) :
        rows \in SeqUpTo(
            {LabelCol(l) @@ ("Annual changes" :> x.a) @@ [Weights |-> x.w] :
                l \in CpiLabels, x \in DriverCells}, MaxRows)}
    \cup {Frame(<<"Product group_label", "month", "Weights">>, rows) :
        rows \in SeqUpTo({LabelCol(Some(FOOD))
                             @@ [month |-> Month(2022, 1), Weights |-> w] :
                             w \in WeightCells}, MaxRows)}
    \cup {Frame(<<"Product group_label", "month", "Annual changes">>, rows) :
        rows \in SeqUpTo({LabelCol(Some(FOOD)) @@ ("Annual changes" :> Some(Q(2, 1)))
                             @@ [month |-> Month(2022, 1)]}, MaxRows)}
    \cup {Frame(<<"month", "Annual changes", "Weights">>, rows) :
        rows \in SeqUpTo({("Annual changes" :> Some(Q(2, 1)))
                             @@ [month |-> Month(2022, 1), Weights |-> Some(Q(10, 1))]},
                         MaxRows)}

\* The longest monthly series of the model.
MaxCpiRows == 3

\* The code of the product group with the label l.
CodeOfLabel(l) ==
    IF l = Some(TOTAL) THEN Some(<<"0", "0">>)
    ELSE IF l = Some(FOOD) THEN Some(<<"0", "1">>)
    ELSE l

\* A row of the table that fetch_all_data hands to the aggregator: a
\* top-level code, its label, the month and the three observations.
SeriesRow(l, m, a, w) ==
    ("Product group" :> CodeOfLabel(l)) @@ LabelCol(l) @@ ("Annual changes" :> a)
        @@ [month |-> m, Index |-> Some(Q(100, 1)), Weights |-> w]

\* Rows of monthly series: FOOD in 2021 and twice in 2022 (once without a
\* weight), group 04 in 2021 and in 2022 (there without a rate), TOTAL, and
\* a row whose month did not parse.
SeriesRows ==
    {SeriesRow(Some(FOOD), Month(2021, 12), Some(Q(5, 1)), Some(Q(10, 1))),
     SeriesRow(Some(FOOD), Month(2022, 1), Some(Q(7, 1)), Some(Q(30, 1))),
     SeriesRow(Some(FOOD), Month(2022, 2), Some(Q(2, 1)), Null),
     SeriesRow(Some(<<"0", "4">>), Month(2021, 12), Some(Q(-1, 1)), Some(Q(20, 1))),
     SeriesRow(Some(<<"0", "4">>), Month(2022, 1), Null, Some(Q(10, 1))),
     SeriesRow(Some(TOTAL), Month(2022, 1), Some(Q(2, 1)), Some(Q(30, 1))),
     SeriesRow(Some(FOOD), Null, Some(Q(5, 1)), Some(Q(10, 1)))}

SeriesColumns ==
    <<"Product group", "month", "Index", "Annual changes", "Weights",
      "Product group_label">>

\* The table without the column c.
DropColumn(df, c) ==
    LET other(x) == x # c
    IN  Frame(SelectSeq(df.columns, other),
              [i \in 1..Len(df.rows) |->
                  [x \in (DOMAIN df.rows[i]) \ {c} |-> df.rows[i][x]]])

\* Tables of monthly series with all columns (the table of no rows among
\* them); the table without rows and columns; and tables of one row that
\* lack one of the columns.
SeriesTables ==
    {Frame(SeriesColumns, rows) : rows \in SeqUpTo(SeriesRows, MaxCpiRows)}
    \cup {EmptyFrame}
    \cup {DropColumn(Frame(SeriesColumns,
                           <<SeriesRow(Some(FOOD), Month(2022, 1),
                                       Some(Q(7, 1)), Some(Q(30, 1)))>>), c) :
             c \in {"Product group", "Product group_label", "month", "Index",
                    "Annual changes", "Weights"}}

\* selected_groups: the labels chosen in the dashboard.
GroupSelections == {{FOOD}, {FOOD, <<"0", "4">>, TOTAL}}

\* The operations on monthly series that take the selected groups.
SeriesOps ==
    {"calculate_inflation_contributions", "prepare_heatmap_data",
     "process_cpi_data", "process_weights_data"}

SeriesCalls ==
    {[op |-> o, df |-> d, selected_groups |-> g, already_filtered_top_level |-> f] :
        o \in SeriesOps, d \in SeriesTables, g \in GroupSelections, f \in BOOLEAN}

\* Tables for the inflation impact: index rows of TOTAL and of FOOD in two
\* months or with an unparsed month, with an index above the base, or a
\* missing index; tables without labels; and tables that lack the Index or
\* the month column.
ImpactTables ==
    {Frame(<<"Product group_label", "month", "Index">>, rows) :
        rows \in SeqUpTo(
            {LabelCol(l) @@ [month |-> m, Index |-> x] :
                l \in {Some(TOTAL), Some(FOOD)},
                m \in {Null, Month(2021, 12), Month(2022, 1)},
                x \in {Null, Some(Q(150, 1)), Some(Q(1103, 10))}},
            MaxRows)}
    \cup {Frame(<<"month", "Index">>, rows) :
        rows \in SeqUpTo([month : {Month(2021, 12), Month(2022, 1)},
                          Index : {Some(Q(150, 1)), Some(Q(1103, 10))}], MaxRows)}
    \cup {Frame(<<"Product group_label", "month">>, rows) :
        rows \in SeqUpTo({LabelCol(Some(TOTAL)) @@ [month |-> Month(2022, 1)]}, MaxRows)}
    \cup {Frame(<<"Product group_label", "Index">>, rows) :
        rows \in SeqUpTo({LabelCol(Some(TOTAL)) @@ [Index |-> Some(Q(150, 1))]},
                         MaxRows)}

\* base_amount: the dashboard asks for 10000 SEK.
BaseAmounts == {10000, 250}

WeightCalls ==
    {[op |-> "get_top_categories_by_weight", df |-> d, top_n |-> n] :
        d \in WeightTables, n \in TopNs}

DriverCalls ==
    {[op |-> "get_top_inflation_drivers", df |-> d, top_n |-> n] :
        d \in DriverTables, n \in TopNs}

ImpactCalls ==
    {[op |-> "calculate_inflation_impact", base_amount |-> b, df |-> d] :
        b \in BaseAmounts, d \in ImpactTables}

InitCpi ==
    /\ pc = "ready"
    /\ ret = NoOutcome
    /\ sent = <<>>
    /\ \/ call \in WeightCalls
       \/ call \in DriverCalls
       \/ call \in SeriesCalls
       \/ call \in ImpactCalls

CallGetTopCategoriesByWeight ==
    /\ pc = "ready"
    /\ call.op = "get_top_categories_by_weight"
    /\ \E out \in GetTopCategoriesByWeight(call.df, call.top_n) :
          ret' = Returned(out)
    /\ call' = [call EXCEPT !.df =
                    CallersTable(GetTopCategoriesByWeightStatements(call.df, call.top_n), call.df)]
    /\ pc' = "done"
    /\ UNCHANGED sent

CallGetTopInflationDrivers ==
    /\ pc = "ready"
    /\ call.op = "get_top_inflation_drivers"
    /\ \E out \in GetTopInflationDrivers(call.df, call.top_n) :
          ret' = Returned(out)
    /\ call' = [call EXCEPT !.df =
                    CallersTable(GetTopInflationDriversStatements(call.df, call.top_n), call.df)]
    /\ pc' = "done"
    /\ UNCHANGED sent

CallCalculateInflationContributions ==
    /\ pc = "ready"
    /\ call.op = "calculate_inflation_contributions"
    /\ ret' = CalculateInflationContributions(call.df, call.selected_groups,
                                              call.already_filtered_top_level)
    /\ call' = [call EXCEPT !.df =
                    CallersTable(CalculateInflationContributionsStatements(
                                     call.df, call.selected_groups,
                                     call.already_filtered_top_level), call.df)]
    /\ pc' = "done"
    /\ UNCHANGED sent

CallPrepareHeatmapData ==
    /\ pc = "ready"
    /\ call.op = "prepare_heatmap_data"
    /\ ret' = PrepareHeatmapData(call.df, call.selected_groups,
                                 call.already_filtered_top_level)
    /\ call' = [call EXCEPT !.df =
                    CallersTable(PrepareHeatmapDataStatements(
                                     call.df, call.selected_groups,
                                     call.already_filtered_top_level), call.df)]
    /\ pc' = "done"
    /\ UNCHANGED sent

CallCalculateInflationImpact ==
    /\ pc = "ready"
    /\ call.op = "calculate_inflation_impact"
    /\ ret' = CalculateInflationImpact(call.base_amount, call.df)
    /\ pc' = "done"
    /\ UNCHANGED <<call, sent>>

CallProcessCpiData ==
    /\ pc = "ready"
    /\ call.op = "process_cpi_data"
    /\ ret' = ProcessCpiData(call.df, call.selected_groups,
                             call.already_filtered_top_level)
    /\ call' = [call EXCEPT !.df =
                    CallersTable(ProcessCpiDataStatements(
                                     call.df, call.selected_groups,
                                     call.already_filtered_top_level), call.df)]
    /\ pc' = "done"
    /\ UNCHANGED sent

CallProcessWeightsData ==
    /\ pc = "ready"
    /\ call.op = "process_weights_data"
    /\ ret' = ProcessWeightsData(call.df, call.selected_groups,
                                 call.already_filtered_top_level)
    /\ call' = [call EXCEPT !.df =
                    CallersTable(ProcessWeightsDataStatements(
                                     call.df, call.selected_groups,
                                     call.already_filtered_top_level), call.df)]
    /\ pc' = "done"
    /\ UNCHANGED sent

NextCpi ==
    \/ CallGetTopCategoriesByWeight
    \/ CallGetTopInflationDrivers
    \/ CallCalculateInflationContributions
    \/ CallPrepareHeatmapData
    \/ CallCalculateInflationImpact
    \/ CallProcessCpiData
    \/ CallProcessWeightsData

SpecCpi == InitCpi /\ [][NextCpi]_vars

(* ----------------------- claims: ranking by weight -------------------- *)

\* A call of get_top_categories_by_weight has returned.
TopWeightsDone == pc = "done" /\ call.op = "get_top_categories_by_weight"

\* C11: get_top_categories_by_weight(df, top_n) returns at most top_n rows,
\* in non-increasing order of Weights, and no row of the aggregate "TOTAL"
\* group, also when that group has the largest weight.
C11_TopByWeight ==
    TopWeightsDone =>
        /\ ret.kind = "return"
        /\ Len(ret.value.rows) <= call.top_n
        /\ \A k \in 1..(Len(ret.value.rows) - 1) :
              ~QLt(Val(ret.value.rows[k].Weights), Val(ret.value.rows[k + 1].Weights))
        /\ \A k \in 1..Len(ret.value.rows) :
              ret.value.rows[k]["Product group_label"] # Some(TOTAL)

\* TOTAL has the largest weight of the latest month and the call for the
\* top 5 returns the one other group.
C11_Witness ==
    /\ TopWeightsDone
    /\ call.top_n = 5
    /\ call.df.columns = <<"Product group_label", "month", "Weights">>
    /\ Len(call.df.rows) = 2
    /\ \A i \in 1..2 : call.df.rows[i].month = Month(2022, 1)
    /\ call.df.rows[1]["Product group_label"] = Some(TOTAL)
    /\ call.df.rows[1].Weights = Some(Q(30, 1))
    /\ call.df.rows[2]["Product group_label"] = Some(FOOD)
    /\ call.df.rows[2].Weights = Some(Q(10, 1))
    /\ Len(ret.value.rows) = 1
    /\ ret.value.rows[1]["Product group_label"] = Some(FOOD)

(* ------------------- claims: the most recent month -------------------- *)

\* A ranking has returned for a table that has the columns the ranking
\* reads.
RankingDone ==
    /\ pc = "done"
    /\ call.op \in {"get_top_categories_by_weight", "get_top_inflation_drivers"}
    /\ HasColumn(call.df, "Product group_label") /\ HasColumn(call.df, "Weights")
    /\ call.op = "get_top_inflation_drivers" => HasColumn(call.df, "Annual changes")

\* The positions in the input of the rows of the returned table.
ResultIndex == IF "index" \in DOMAIN ret.value THEN ret.value.index ELSE <<>>

\* Row i of the input remains after the null-value filter and the
\* aggregate-row filter of the ranking that was called.
Remains(i) ==
    /\ ~UpperContainsTotal(call.df.rows[i]["Product group_label"])
    /\ call.df.rows[i].Weights # Null
    /\ call.op = "get_top_inflation_drivers" => call.df.rows[i]["Annual changes"] # Null

Remaining == {i \in 1..Len(call.df.rows) : Remains(i)}

\* The remaining rows of the most recent month: those with a month that no
\* remaining row's month exceeds, or all of them in a table without the
\* month column.
LatestRemaining ==
    IF HasColumn(call.df, "month")
    THEN {i \in Remaining :
            /\ call.df.rows[i].month # Null
            /\ \A j \in Remaining :
                  call.df.rows[j].month # Null
                      => ~DateLt(call.df.rows[i].month[1], call.df.rows[j].month[1])}
    ELSE Remaining

\* C12: in get_top_categories_by_weight and get_top_inflation_drivers every
\* returned row is a row that remains after the null-value and
\* aggregate-row filters and carries the maximum month found among those
\* rows; in a table without the month column all remaining rows are
\* candidates: the result has min(top_n, number of remaining rows) of them.
C12_LatestMonth ==
    RankingDone =>
        /\ ret.kind = "return"
        /\ Cardinality(Range(ResultIndex)) = Len(ResultIndex)
        /\ Len(ResultIndex) = Len(ret.value.rows)
        /\ Range(ResultIndex) \subseteq Remaining
        /\ HasColumn(call.df, "month") =>
              \A k \in 1..Len(ResultIndex) :
                  LET month == call.df.rows[ResultIndex[k]].month
                  IN  /\ month # Null
                      /\ \A j \in Remaining :
                            call.df.rows[j].month # Null
                                => ~DateLt(month[1], call.df.rows[j].month[1])
        /\ ~HasColumn(call.df, "month") =>
              Len(ResultIndex) = Min(call.top_n, Cardinality(Remaining))

\* The heavier group is of the earlier month: the ranking by weight
\* returns only the lighter group of the latest month.
C12_Witness ==
    /\ RankingDone
    /\ call.op = "get_top_categories_by_weight"
    /\ call.top_n = 5
    /\ HasColumn(call.df, "month")
    /\ Len(call.df.rows) = 2
    /\ call.df.rows[1].month = Month(2021, 12)
    /\ call.df.rows[1].Weights = Some(Q(30, 1))
    /\ call.df.rows[2].month = Month(2022, 1)
    /\ call.df.rows[2].Weights = Some(Q(10, 1))
    /\ Remaining = {1, 2}
    /\ ResultIndex = <<2>>

(* ------------------------ claims: tied weights ------------------------ *)

\* When a tie straddles the cut-off of get_top_categories_by_weight, the
\* row that is retained is earlier in the input than the tied row that is
\* left out.
TieAtCutOffKeepsEarlier ==
    (RankingDone /\ call.op = "get_top_categories_by_weight") =>
        \A k \in 1..Len(ResultIndex) :
            \A i \in LatestRemaining \ Range(ResultIndex) :
                call.df.rows[i].Weights = call.df.rows[ResultIndex[k]].Weights
                    => ResultIndex[k] < i

\* C13: in get_top_categories_by_weight rows with equal Weights keep their
\* input order: of two tied rows the one earlier in the input is listed
\* first, and of a tie that straddles the top_n cut-off the earlier row is
\* the one retained.
C13_TiesKeepInputOrder ==
    (RankingDone /\ call.op = "get_top_categories_by_weight") =>
        /\ \A k, m \in 1..Len(ResultIndex) :
              (k < m /\ ret.value.rows[k].Weights = ret.value.rows[m].Weights)
                  => ResultIndex[k] < ResultIndex[m]
        /\ TieAtCutOffKeepsEarlier

(* -------------------- claims: ranking by Contribution ----------------- *)

\* Annual changes x Weights of row i of the input.
RateTimesWeight(i) ==
    QMul(call.df.rows[i]["Annual changes"][1], call.df.rows[i].Weights[1])

\* C14: get_top_inflation_drivers(df, top_n) returns at most top_n rows,
\* all of the most recent month, none of the aggregate group and none with
\* a null Annual changes or Weights, each with the label and the two
\* observations of its input row and Contribution = Annual changes x
\* Weights / 100, in non-increasing order of Contribution; no row left out
\* by the ranking has a larger Contribution than a returned row.
C14_TopDrivers ==
    (RankingDone /\ call.op = "get_top_inflation_drivers") =>
        /\ ret.kind = "return"
        /\ Len(ret.value.rows) <= call.top_n
        /\ Len(ResultIndex) = Len(ret.value.rows)
        /\ Cardinality(Range(ResultIndex)) = Len(ResultIndex)
        /\ Range(ResultIndex) \subseteq LatestRemaining
        /\ Len(ResultIndex) = Min(call.top_n, Cardinality(LatestRemaining))
        /\ \A k \in 1..Len(ResultIndex) :
              LET in == call.df.rows[ResultIndex[k]]
                  out == ret.value.rows[k]
              IN  /\ out["Product group_label"] = in["Product group_label"]
                  /\ out["Annual changes"] = in["Annual changes"]
                  /\ out.Weights = in.Weights
                  /\ out.Contribution # Null
                  /\ QMul(out.Contribution[1], Q(100, 1)) = RateTimesWeight(ResultIndex[k])
        /\ \A k \in 1..(Len(ResultIndex) - 1) :
              ~QLt(RateTimesWeight(ResultIndex[k]), RateTimesWeight(ResultIndex[k + 1]))
        /\ \A i \in LatestRemaining \ Range(ResultIndex) :
              \A k \in 1..Len(ResultIndex) :
                  ~QLt(RateTimesWeight(ResultIndex[k]), RateTimesWeight(i))

\* Of two groups of the latest month the call for the top 1 returns the
\* one with Contribution 2 x 10 / 100 = 1/5 and leaves out the one with
\* -1 x 30 / 100.
C14_Witness ==
    /\ RankingDone /\ call.op = "get_top_inflation_drivers"
    /\ call.top_n = 1
    /\ HasColumn(call.df, "month")
    /\ Len(call.df.rows) = 2
    /\ LatestRemaining = {1, 2}
    /\ call.df.rows[1]["Annual changes"] = Some(Q(-1, 1))
    /\ call.df.rows[1].Weights = Some(Q(30, 1))
    /\ call.df.rows[2]["Annual changes"] = Some(Q(2, 1))
    /\ call.df.rows[2].Weights = Some(Q(10, 1))
    /\ ResultIndex = <<2>>
    /\ ret.value.rows[1].Contribution = Some(<<"q", 1, 5>>)

(* -------------------- claims: contribution series --------------------- *)

\* A call of calculate_inflation_contributions is done for a table that
\* has the columns of a monthly series.
ContributionsDone ==
    /\ pc = "done" /\ call.op = "calculate_inflation_contributions"
    /\ \A c \in {"Product group_label", "month", "Annual changes", "Weights"} :
          HasColumn(call.df, c)

\* The input rows of a selected group with both observations, in order.
ContributingRows ==
    LET contributes(r) == /\ r["Product group_label"] # Null
                          /\ r["Product group_label"][1] \in call.selected_groups
                          /\ r["Annual changes"] # Null
                          /\ r.Weights # Null
    IN  SelectSeq(call.df.rows, contributes)

HeatmapDone ==
    /\ pc = "done" /\ call.op = "prepare_heatmap_data"
    /\ \A c \in {"Product group_label", "month", "Annual changes"} :
          HasColumn(call.df, c)

\* The observations of group g in calendar year y: the input rows of that
\* group and year with a non-null Annual changes.
Observations(g, y) ==
    {i \in 1..Len(call.df.rows) :
        /\ call.df.rows[i]["Product group_label"] = <<g>>
        /\ call.df.rows[i].month # Null
        /\ call.df.rows[i].month[1].year = y
        /\ call.df.rows[i]["Annual changes"] # Null}

\* The sum of the Annual changes of the observations of (g, y) among the
\* first n input rows.
RECURSIVE ObservedSumUpTo(_, _, _)
ObservedSumUpTo(n, g, y) ==
    IF n = 0 THEN Q(0, 1)
    ELSE IF n \in Observations(g, y)
    THEN QAdd(ObservedSumUpTo(n - 1, g, y), call.df.rows[n]["Annual changes"][1])
    ELSE ObservedSumUpTo(n - 1, g, y)

HeatmapYears == {2021, 2022}

\* The selected groups and the years that have an observation.
ObservedGroups ==
    {g \in call.selected_groups : \E y \in HeatmapYears : Observations(g, y) # {}}

ObservedYears ==
    {y \in HeatmapYears : \E g \in call.selected_groups : Observations(g, y) # {}}

\* C16: prepare_heatmap_data returns a matrix of the observed selected
\* groups by the observed calendar years whose cell (g, y) is the mean of
\* the non-null Annual changes of group g in year y, and is null (not
\* zero) when group g has no observation in year y.
C16_HeatmapMatrix ==
    HeatmapDone =>
        /\ ret.kind = "return"
        /\ Range(ResultIndex) = ObservedGroups
        /\ Len(ResultIndex) = Cardinality(ObservedGroups)
        /\ Len(ret.value.rows) = Len(ResultIndex)
        /\ Range(ret.value.columns) = ObservedYears
        /\ Len(ret.value.columns) = Cardinality(ObservedYears)
        /\ \A k \in 1..Len(ResultIndex) :
              \A y \in ObservedYears :
                  LET cell == ret.value.rows[k][y]
                      n == Cardinality(Observations(ResultIndex[k], y))
                  IN  IF n = 0 THEN cell = Null
                      ELSE /\ cell # Null
                           /\ QMul(cell[1], Q(n, 1))
                                  = ObservedSumUpTo(Len(call.df.rows), ResultIndex[k], y)

\* The rows (FOOD, 2021, 5), (FOOD, 2022, 7), (04, 2021, -1) give a 2 x 2
\* matrix whose cell (04, 2022) is null.
C16_Witness ==
    /\ HeatmapDone
    /\ call.selected_groups = {FOOD, <<"0", "4">>, TOTAL}
    /\ Len(call.df.rows) = 3
    /\ call.df.rows[1]["Product group_label"] = Some(FOOD)
    /\ call.df.rows[1].month = Month(2021, 12)
    /\ call.df.rows[1]["Annual changes"] = Some(Q(5, 1))
    /\ call.df.rows[2]["Product group_label"] = Some(FOOD)
    /\ call.df.rows[2].month = Month(2022, 1)
    /\ call.df.rows[2]["Annual changes"] = Some(Q(7, 1))
    /\ call.df.rows[3]["Product group_label"] = Some(<<"0", "4">>)
    /\ call.df.rows[3].month = Month(2021, 12)
    /\ call.df.rows[3]["Annual changes"] = Some(Q(-1, 1))
    /\ ret.value.index = <<<<"0", "4">>, FOOD>>
    /\ ret.value.columns = <<2021, 2022>>
    /\ ret.value.rows[1][2021] = Some(Q(-1, 1))
    /\ ret.value.rows[1][2022] = Null
    /\ ret.value.rows[2][2021] = Some(Q(5, 1))
    /\ ret.value.rows[2][2022] = Some(Q(7, 1))

(* ---------------------- claims: inflation impact --------------------- *)

ImpactDone == pc = "done" /\ call.op = "calculate_inflation_impact"

\* The input rows of the aggregate group.
TotalRows ==
    IF HasColumn(call.df, "Product group_label")
    THEN {i \in 1..Len(call.df.rows) :
             call.df.rows[i]["Product group_label"] = Some(TOTAL)}
    ELSE {}

\* Row i has a month and no row of the set has a later one.
HasMaxMonthOf(i, rows) ==
    /\ call.df.rows[i].month # Null
    /\ \A j \in rows :
          call.df.rows[j].month # Null
              => ~DateLt(call.df.rows[i].month[1], call.df.rows[j].month[1])

\* The result dictionary is computed from the Index of input row i.
ImpactComputedFrom(i) ==
    /\ ret.value # Null
    /\ ret.value[1].latest_index = call.df.rows[i].Index
    /\ ret.value[1].latest_month = call.df.rows[i].month
    /\ IF call.df.rows[i].Index = Null
       THEN ret.value[1].current_amount = Null /\ ret.value[1].total_inflation = Null
       ELSE /\ ret.value[1].current_amount # Null
            /\ QMul(ret.value[1].current_amount[1], Q(100, 1))
                   = QMul(Q(call.base_amount, 1), call.df.rows[i].Index[1])
            /\ ret.value[1].total_inflation
                   = <<QSub(call.df.rows[i].Index[1], Q(100, 1))>>

\* C17: for a table with the Index and month columns that has rows of the
\* aggregate "TOTAL" group (one of them with a month),
\* calculate_inflation_impact(base_amount, df) takes latest_index from a
\* TOTAL row with the maximum month of the TOTAL rows and returns
\* current_amount = base_amount x latest_index / 100 and total_inflation
\* = (latest_index - 100) / 100 x 100; rows of other groups, also with a
\* later month, do not affect the result.
C17_InflationImpact ==
    (/\ ImpactDone
     /\ HasColumn(call.df, "Index") /\ HasColumn(call.df, "month")
     /\ \E i \in TotalRows : call.df.rows[i].month # Null) =>
        /\ ret.kind = "return"
        /\ \E i \in TotalRows :
              /\ HasMaxMonthOf(i, TotalRows)
              /\ \A j \in TotalRows : HasMaxMonthOf(j, TotalRows) => i <= j
              /\ ImpactComputedFrom(i)

\* base_amount 10000 and the TOTAL index 150 of 2021-12 give 15000 and
\* 50, although FOOD has a row of the later month 2022-01.
C17_Witness ==
    /\ ImpactDone
    /\ call.base_amount = 10000
    /\ Len(call.df.rows) = 2
    /\ HasColumn(call.df, "Product group_label")
    /\ call.df.rows[1]["Product group_label"] = Some(FOOD)
    /\ call.df.rows[1].month = Month(2022, 1)
    /\ call.df.rows[1].Index = Some(Q(1103, 10))
    /\ call.df.rows[2]["Product group_label"] = Some(TOTAL)
    /\ call.df.rows[2].month = Month(2021, 12)
    /\ call.df.rows[2].Index = Some(Q(150, 1))
    /\ ret.value # Null
    /\ ret.value[1].current_amount = Some(<<"q", 15000, 1>>)
    /\ ret.value[1].total_inflation = Some(<<"q", 50, 1>>)

\* C18 as stated: calculate_inflation_impact returns None whenever the
\* table has no row of the aggregate "TOTAL" group or has no Index column.
C18_UnavailableWithoutTotal ==
    (ImpactDone /\ (TotalRows = {} \/ ~HasColumn(call.df, "Index"))) =>
        ret = Returned(Null)

\* C18 as amended: calculate_inflation_impact returns None whenever the
\* table is empty or has no Index column or no month column; for a table
\* with both columns and no row of the "TOTAL" group it falls back to the
\* rows of all groups: it returns None only if no row has a month, and
\* otherwise computes the amounts from the first row of the maximum month.
C18_FallbackToAllGroups ==
    ImpactDone =>
        /\ ret.kind = "return"
        /\ (\/ Len(call.df.rows) = 0
            \/ ~HasColumn(call.df, "Index")
            \/ ~HasColumn(call.df, "month")) => ret.value = Null
        /\ (/\ HasColumn(call.df, "Index") /\ HasColumn(call.df, "month")
            /\ TotalRows = {}) =>
              LET all == 1..Len(call.df.rows)
              IN  IF \A i \in all : call.df.rows[i].month = Null
                  THEN ret.value = Null
                  ELSE \E i \in all :
                          /\ HasMaxMonthOf(i, all)
                          /\ \A j \in all : HasMaxMonthOf(j, all) => i <= j
                          /\ ImpactComputedFrom(i)

\* The table has only rows of FOOD, and the amount is computed from the
\* FOOD index 150 of the latest month.
C18_Witness ==
    /\ ImpactDone
    /\ call.base_amount = 10000
    /\ HasColumn(call.df, "Product group_label")
    /\ Len(call.df.rows) = 2
    /\ TotalRows = {}
    /\ call.df.rows[1].month = Month(2021, 12)
    /\ call.df.rows[2].month = Month(2022, 1)
    /\ call.df.rows[2].Index = Some(Q(150, 1))
    /\ ret.value # Null
    /\ ret.value[1].current_amount = Some(<<"q", 15000, 1>>)

(* ------------------ claims: empty and incomplete tables --------------- *)

\* The columns an operation of the CPI aggregator needs for a result with
\* rows (the two rankings also work without the month column).
ColumnsNeeded(op) ==
    CASE op = "process_cpi_data" -> {"Product group_label", "Weights", "month"}
      [] op = "process_weights_data" -> {"Product group_label", "Weights", "month"}
      [] op = "calculate_inflation_contributions" ->
             {"Product group_label", "Annual changes", "Weights", "month"}
      [] op = "prepare_heatmap_data" -> {"Product group_label", "Annual changes", "month"}
      [] op = "get_top_categories_by_weight" -> {"Product group_label", "Weights"}
      [] op = "get_top_inflation_drivers" ->
             {"Product group_label", "Annual changes", "Weights"}

\* The returned value is an empty result: a table without rows or columns
\* or, for process_cpi_data, an empty weights_by_year table.
ResultIsEmpty ==
    IF call.op = "process_cpi_data" THEN DfEmpty(ret.value.weights_by_year)
    ELSE DfEmpty(ret.value)

\* C19: each operation of the CPI aggregator returns an empty result, and
\* does not raise, for every input table that is empty or lacks one of the
\* columns it reads.
C19_EmptyInputTolerated ==
    (/\ pc = "done"
     /\ call.op \in {"process_cpi_data", "process_weights_data",
                     "calculate_inflation_contributions", "prepare_heatmap_data",
                     "get_top_categories_by_weight", "get_top_inflation_drivers"}
     /\ \/ DfEmpty(call.df)
        \/ \E c \in ColumnsNeeded(call.op) : ~HasColumn(call.df, c)) =>
        /\ ret.kind = "return"
        /\ ResultIsEmpty

\* The two rankings do return an empty table for every such input.
RankingsTolerateEmptyInput ==
    (/\ pc = "done"
     /\ call.op \in {"get_top_categories_by_weight", "get_top_inflation_drivers"}
     /\ \/ DfEmpty(call.df)
        \/ \E c \in ColumnsNeeded(call.op) : ~HasColumn(call.df, c)) =>
        ret = Returned(EmptyFrame)

(* ------------- claims: the migration computations never raise -------- *)

\* The table names no country: neither countrycode nor another column
\* that names the country.
NoCountryColumn(df) == \A i \in 1..Len(df.columns) : ~NamesCountry(df.columns[i])

\* The table has neither of the two volume columns.
NoMigrationColumn(df) == ~HasColumn(df, "Immigration") /\ ~HasColumn(df, "Emigration")

\* C20: the migration derived computations never raise: when the input has
\* no qualifying rows, no country column, or neither Immigration nor
\* Emigration column, the outcome is an empty table, not an exception.
C20_MigrationNeverRaises ==
    (/\ pc = "done"
     /\ call.op \in {"prepare_migration_flows", "get_top_immigration_countries",
                     "get_top_emigration_countries", "aggregate_by_year"}) =>
        /\ ret.kind = "return"
        /\ (NoCountryColumn(call.df) \/ NoMigrationColumn(call.df))
              => DfEmpty(ret.value)

(* ---------------- claims: which rows are the aggregate ---------------- *)

\* Row i of the input has the values the called ranking needs and is of the
\* latest month of the table, so that only the aggregate-row filter and the
\* cut after top_n rows can keep it from the ranking.
Rankable(i) ==
    /\ call.df.rows[i].Weights # Null
    /\ call.op = "get_top_inflation_drivers" => call.df.rows[i]["Annual changes"] # Null
    /\ HasColumn(call.df, "month") =>
          /\ NotNa(call.df.rows[i].month)
          /\ \A j \in 1..Len(call.df.rows) :
                NotNa(call.df.rows[j].month) =>
                    ~DateLt(Val(call.df.rows[i].month), Val(call.df.rows[j].month))

\* The labels of the returned ranking.
RankedLabels == {ret.value.rows[k]["Product group_label"] : k \in 1..Len(ret.value.rows)}

\* C30: a row is excluded from the ranking by get_top_categories_by_weight
\* and get_top_inflation_drivers if and only if calculate_inflation_impact
\* would treat it as the "TOTAL" group (label exactly "TOTAL"); a group
\* whose label merely contains the letters "total" is ranked like any other.
C30_AggregateAgreement ==
    (RankingDone /\ call.top_n >= Len(call.df.rows)) =>
        \A i \in 1..Len(call.df.rows) :
            Rankable(i) =>
                (call.df.rows[i]["Product group_label"] \notin RankedLabels
                    <=> IsTotalLabel(call.df.rows[i]["Product group_label"]))

\* The two tests agree on every row but those whose label contains
\* "total" in some case without being "TOTAL".
AgreementOnOtherLabels ==
    (RankingDone /\ call.top_n >= Len(call.df.rows)) =>
        \A i \in 1..Len(call.df.rows) :
            (/\ Rankable(i)
             /\ UpperContainsTotal(call.df.rows[i]["Product group_label"])
                   => IsTotalLabel(call.df.rows[i]["Product group_label"])) =>
                (call.df.rows[i]["Product group_label"] \notin RankedLabels
                    <=> IsTotalLabel(call.df.rows[i]["Product group_label"]))

(* ----------------------- the order of strings ------------------------ *)

\* ord() of the characters of a product-group code.
CodePoint(ch) == IF ch = "." THEN 46 ELSE 48 + DigitValue(ch)

\* a < b for two Python strings: the first differing character decides, a
\* proper prefix is smaller.
RECURSIVE StrLt(_, _)
StrLt(a, b) ==
    IF b = <<>> THEN FALSE
    ELSE IF a = <<>> THEN TRUE
    ELSE IF Head(a) = Head(b) THEN StrLt(Tail(a), Tail(b))
    ELSE CodePoint(Head(a)) < CodePoint(Head(b))

\* The codes in descending order: sorted(S, reverse=True).
SortedDescending(S) ==
    LET rank(c) == Cardinality({d \in S : StrLt(c, d)}) + 1
    IN  [k \in 1..Cardinality(S) |-> CHOOSE c \in S : rank(c) = k]

\* sorted(S) for a set of strings.
Sorted(S) ==
    LET rank(c) == Cardinality({d \in S : StrLt(d, c)}) + 1
    IN  [k \in 1..Cardinality(S) |-> CHOOSE c \in S : rank(c) = k]

(* ---------------------- migration: aggregate_by_year ------------------ *)

\* The distinct non-null values of a key column in sorted order: country
\* codes in the order of CodeOrder, period strings in string order.
GroupKeys(rows, key) ==
    IF key = "countrycode" THEN SortedKeys(rows, key)
    ELSE LET cells == Sorted({Val(rows[i][key]) : i \in {j \in 1..Len(rows) : NotNa(rows[j][key])}})
         IN  [k \in 1..Len(cells) |-> Some(cells[k])]

\* df.groupby([key], as_index=False).agg({c: "sum" for c in aggCols}): one
\* row per key in sorted order, nulls skipped by the sums.
GroupBySumOf(rows, key, aggCols) ==
    LET keys == GroupKeys(rows, key)
    IN  [k \in 1..Len(keys) |->
            LET inGroup(r) == r[key] = keys[k]
                group == SelectSeq(rows, inGroup)
            IN  [c \in {key} \cup Range(aggCols) |->
                    IF c = key THEN keys[k] ELSE Some(SumSkipNa(group, c))]]

\* aggregate_by_year(df, group_by), for group_by lists of which at most one
\* column is in the table.
AggregateByYear(df, group_by) ==
    IF DfEmpty(df) THEN df
    ELSE
    LET asked == IF IsNull(group_by) THEN <<"year">> ELSE Val(group_by)
        inTable(c) == HasColumn(df, c)
        present == SelectSeq(asked, inTable)
        agg_cols == SelectSeq(<<"Immigration", "Emigration", "net_migration">>, inTable)
    IN  IF present = <<>> \/ agg_cols = <<>> THEN df
        ELSE Frame(<<present[1]>> \o agg_cols,
                   GroupBySumOf(df.rows, present[1], agg_cols))

(* ----------------- migration: the top countries of a year ------------- *)

\* df_filtered["year"].max(): the largest period string, NaN if there is
\* none.
LatestYear(rows) ==
    LET years == {Val(rows[i].year) : i \in {j \in 1..Len(rows) : NotNa(rows[j].year)}}
    IN  IF years = {} THEN Null
        ELSE Some(CHOOSE y \in years : \A z \in years : ~StrLt(y, z))

\* The earliest year instead of the latest.
RowsOfYearEarliest(df, rows, year) ==
    IF Truthy(year) /\ HasColumn(df, "year")
    THEN LET sameYear(r) == AsStr(r.year) = IntToStr(Val(year))
         IN  SelectSeq(rows, sameYear)
    ELSE IF HasColumn(df, "year")
    THEN LET years == {Val(rows[i].year) : i \in {j \in 1..Len(rows) : NotNa(rows[j].year)}}
             first == IF years = {} THEN Null
                      ELSE Some(CHOOSE y \in years : \A z \in years : ~StrLt(z, y))
             earliest(r) == AsStr(r.year) = AsStr(first)
         IN  SelectSeq(rows, earliest)
    ELSE rows

\* "Filter by year if specified", else "use latest year".
RowsOfYear(df, rows, year) ==
    IF Truthy(year) /\ HasColumn(df, "year")
    THEN LET sameYear(r) == AsStr(r.year) = IntToStr(Val(year))
         IN  SelectSeq(rows, sameYear)
    ELSE IF HasColumn(df, "year")
    THEN LET latest(r) == AsStr(r.year) = AsStr(LatestYear(rows))
         IN  SelectSeq(rows, latest)
    ELSE rows

\* The rows ranked by the volume column: nlargest(top_n, column) followed by
\* sort_values(column, ascending=False).  Rows with a null volume come after
\* the others, as far as top_n allows.  The result is the set of possible
\* orders (rows of equal volume may come in any order).
RankedRows(rows, column, top_n) ==
    LET hasVolume(i) == NotNa(rows[i][column])
        noVolume(i) == IsNull(rows[i][column])
        all == [i \in 1..Len(rows) |-> i]
        val == [i \in 1..Len(rows) |->
                   IF NotNa(rows[i][column]) THEN Q(Val(rows[i][column]), 1) ELSE Q(0, 1)]
        largest == NLargest(SelectSeq(all, hasVolume), val, top_n)
        nulls == SelectSeq(all, noVolume)
        room == (IF top_n < 0 THEN 0 ELSE top_n) - Len(largest)
        kept == SubSeq(nulls, 1, Min(room, Len(nulls)))
    IN  {[k \in 1..(Len(sorted) + Len(kept)) |-> rows[(sorted \o kept)[k]]] :
            sorted \in SortValuesDesc(largest, val)}

\* get_top_immigration_countries / get_top_emigration_countries for the
\* volume column `column`: the set of tables the call can return.
GetTopCountries(df, top_n, year, column) ==
    IF DfEmpty(df) \/ ~HasColumn(df, column) \/ ~HasColumn(df, "countrycode")
    THEN {EmptyFrame}
    ELSE
    LET notSweden(r) == r.countrycode # "SE"
        df_filtered == RowsOfYear(df, SelectSeq(df.rows, notSweden), year)
        byCountry == IF HasColumn(df, "gender")
                     THEN GroupBySum(df_filtered, "countrycode", <<column>>)
                     ELSE df_filtered
        country_name_map(code) ==
            LET i == CHOOSE j \in 1..Len(df_filtered) : df_filtered[j].countrycode = code
            IN  df_filtered[i].countryname
    IN  {Frame(<<"Country", column>>,
               [k \in 1..Len(top_countries) |->
                   [c \in {"Country", column} |->
                       IF c = column THEN top_countries[k][column]
                       ELSE IF HasColumn(df, "countryname")
                       THEN country_name_map(top_countries[k].countrycode)
                       ELSE top_countries[k].countrycode]]) :
            top_countries \in RankedRows(byCountry, column, top_n)}

GetTopImmigrationCountries(df, top_n, year) == GetTopCountries(df, top_n, year, "Immigration")

GetTopEmigrationCountries(df, top_n, year) == GetTopCountries(df, top_n, year, "Emigration")

\* add_country_coordinates(df) as a call: the table must have countrycode.
AddCountryCoordinatesOutcome(df) ==
    IF ~HasColumn(df, "countrycode") THEN Raised("KeyError")
    ELSE Returned(AddCountryCoordinates(df))

\* The statements aggregate_by_year(df, group_by) runs.
AggregateByYearStatements(df, group_by) ==
    LET asked == IF IsNull(group_by) THEN <<"year">> ELSE Val(group_by)
        inTable(c) == HasColumn(df, c)
    IN  IF \/ DfEmpty(df)
           \/ SelectSeq(asked, inTable) = <<>>
           \/ SelectSeq(<<"Immigration", "Emigration", "net_migration">>, inTable) = <<>>
        THEN <<>>
        ELSE <<Select("aggregated", "df")>>

\* top_countries["countrycode"].map(country_name_map) on the rows of the
\* table: the name the table gives the country.
CountryNameCells(df) == [i \in 1..Len(df.rows) |-> df.rows[i].countryname]

\* The statements get_top_immigration_countries and
\* get_top_emigration_countries run, for the volume column `column`.
GetTopCountriesStatements(df, column) ==
    IF DfEmpty(df) \/ ~HasColumn(df, column) \/ ~HasColumn(df, "countrycode") THEN <<>>
    ELSE <<Copy("df_filtered", "df"), Select("df_filtered", "df_filtered")>>
         \o (IF HasColumn(df, "year")
             THEN <<Select("df_filtered", "df_filtered")>> ELSE <<>>)
         \o <<Select("top_countries", "df_filtered")>>
         \o (IF HasColumn(df, "countryname")
             THEN <<Assign("top_countries", "countryname", CountryNameCells(df)),
                    Select("top_countries", "top_countries"),
                    Select("top_countries", "top_countries")>>
             ELSE <<Select("top_countries", "top_countries")>>)

(* ------------- specification: the migration page's tables ------------- *)

\* The largest number of rows of a migration table of the page.
MaxAtlasRows == 3

\* One row of the fetched migration table: the country code and the gender
\* are key strings, the year is the key string of the period, the two
\* volumes are nullable numbers.
AtlasRow(c, g, y, i, e) ==
    [countrycode |-> c, gender |-> g, year |-> y, Immigration |-> i, Emigration |-> e]

\* The rows of the model: a country with both genders in one year, a second
\* country in two years, Sweden itself, a code without a name ("ZZ") and
\* rows with a null volume.
AtlasRows ==
    {AtlasRow("DE", "Male", Some(<<"2", "0", "2", "1">>), Some(20), Some(5)),
     AtlasRow("DE", "Female", Some(<<"2", "0", "2", "1">>), Some(30), Null),
     AtlasRow("NO", "Male", Some(<<"2", "0", "2", "1">>), Some(30), Some(5)),
     AtlasRow("NO", "Female", Some(<<"2", "0", "2", "0">>), Some(20), Some(5)),
     AtlasRow("SE", "Male", Some(<<"2", "0", "2", "1">>), Some(60), Some(5)),
     AtlasRow("ZZ", "Female", Some(<<"2", "0", "2", "1">>), Null, Some(5))}

AtlasColumns == <<"countrycode", "gender", "year", "Immigration", "Emigration">>

\* No two rows of the table are of one country and year.
OneRowPerCountryAndYear(rows) ==
    \A i, j \in 1..Len(rows) :
        (rows[i].countrycode = rows[j].countrycode /\ rows[i].year = rows[j].year) => i = j

\* The fetched tables with all columns (the table of no rows among them).
FullAtlasTables == {Frame(AtlasColumns, rows) : rows \in SeqUpTo(AtlasRows, MaxAtlasRows)}

\* Tables of up to two rows that lack one column; a table without the gender
\* has one row per country and year.  And the table without rows and
\* columns.
PartialAtlasTables ==
    {DropColumn(Frame(AtlasColumns, rows), c) :
        c \in {"countrycode", "year", "Immigration", "Emigration"},
        rows \in SeqUpTo(AtlasRows, 2)}
    \cup {DropColumn(Frame(AtlasColumns, rows), "gender") :
             rows \in {r \in SeqUpTo(AtlasRows, 2) : OneRowPerCountryAndYear(r)}}
    \cup {EmptyFrame}

\* The table as fetched, or as it is after map_country_codes_to_names (the
\* page names the countries before it ranks them).
AtlasTable(t, named) == IF named THEN MapCountryCodesToNames(t) ELSE t

\* top_n = 10 on the page; 1 cuts the ranking.
AtlasTopNs == {1, 10}

\* group_by = ["year"] on the page; None is the default.
GroupBys == {Null, Some(<<"year">>), Some(<<"countrycode">>), Some(<<"region">>)}

TableOps == {"map_country_codes_to_names", "add_country_coordinates", "net_migration_by_year"}

TopOps == {"get_top_immigration_countries", "get_top_emigration_countries"}

InitAtlas ==
    /\ pc = "ready"
    /\ ret = NoOutcome
    /\ sent = <<>>
    /\ \E t \in FullAtlasTables \cup PartialAtlasTables :
          \/ \E o \in TableOps : call = [op |-> o, df |-> t]
          \/ \E g \in GroupBys : call = [op |-> "aggregate_by_year", df |-> t, group_by |-> g]
          \/ \E o \in TopOps, n \in AtlasTopNs, y \in YearArgs, named \in BOOLEAN :
                call = [op |-> o, df |-> AtlasTable(t, named), top_n |-> n, year |-> y]

CallMapCountryCodesToNames ==
    /\ pc = "ready"
    /\ call.op = "map_country_codes_to_names"
    /\ ret' = Returned(MapCountryCodesToNames(call.df))
    /\ call' = [call EXCEPT !.df =
                    CallersTable(MapCountryCodesToNamesStatements(call.df), call.df)]
    /\ pc' = "done"
    /\ UNCHANGED sent

CallAddCountryCoordinates ==
    /\ pc = "ready"
    /\ call.op = "add_country_coordinates"
    /\ ret' = AddCountryCoordinatesOutcome(call.df)
    /\ call' = [call EXCEPT !.df =
                    CallersTable(AddCountryCoordinatesStatements(call.df), call.df)]
    /\ pc' = "done"
    /\ UNCHANGED sent

CallAggregateByYear ==
    /\ pc = "ready"
    /\ call.op = "aggregate_by_year"
    /\ ret' = Returned(AggregateByYear(call.df, call.group_by))
    /\ call' = [call EXCEPT !.df =
                    CallersTable(AggregateByYearStatements(call.df, call.group_by),
                                 call.df)]
    /\ pc' = "done"
    /\ UNCHANGED sent

\* render: df = calculate_net_migration(df), then
\* df_yearly = aggregate_by_year(df, group_by=["year"]).
CallNetMigrationByYear ==
    /\ pc = "ready"
    /\ call.op = "net_migration_by_year"
    /\ ret' = Returned(AggregateByYear(CalculateNetMigration(call.df), Some(<<"year">>)))
    /\ call' = [call EXCEPT !.df =
                    CallersTable(
                        CalculateNetMigrationStatements(call.df)
                        \o AggregateByYearStatements(CalculateNetMigration(call.df),
                                                     Some(<<"year">>)),
                        call.df)]
    /\ pc' = "done"
    /\ UNCHANGED sent

CallGetTopImmigrationCountries ==
    /\ pc = "ready"
    /\ call.op = "get_top_immigration_countries"
    /\ \E out \in GetTopImmigrationCountries(call.df, call.top_n, call.year) :
          ret' = Returned(out)
    /\ call' = [call EXCEPT !.df =
                    CallersTable(GetTopCountriesStatements(call.df, "Immigration"), call.df)]
    /\ pc' = "done"
    /\ UNCHANGED sent

CallGetTopEmigrationCountries ==
    /\ pc = "ready"
    /\ call.op = "get_top_emigration_countries"
    /\ \E out \in GetTopEmigrationCountries(call.df, call.top_n, call.year) :
          ret' = Returned(out)
    /\ call' = [call EXCEPT !.df =
                    CallersTable(GetTopCountriesStatements(call.df, "Emigration"), call.df)]
    /\ pc' = "done"
    /\ UNCHANGED sent

NextAtlas ==
    \/ CallMapCountryCodesToNames
    \/ CallAddCountryCoordinates
    \/ CallAggregateByYear
    \/ CallNetMigrationByYear
    \/ CallGetTopImmigrationCountries
    \/ CallGetTopEmigrationCountries

SpecAtlas == InitAtlas /\ [][NextAtlas]_vars

(* ---------------- specification: the core operations ------------------ *)

\* Every call of an operation of the two aggregators, on the tables of the
\* specifications above.
InitCore == InitFlows \/ InitFilter \/ InitNet \/ InitCpi \/ InitAtlas

NextCore == NextFlows \/ NextFilter \/ NextNet \/ NextCpi \/ NextAtlas

SpecCore == InitCore /\ [][NextCore]_vars

(* ------------------- claims: the table of the caller ------------------ *)

\* The operations that are given a table and derive a result from it; the
\* last is the page's sequence of calculate_net_migration and
\* aggregate_by_year.
CoreOps ==
    {"filter_top_level_product_groups", "process_cpi_data", "process_weights_data",
     "calculate_inflation_contributions", "prepare_heatmap_data",
     "get_top_categories_by_weight", "get_top_inflation_drivers",
     "get_top_immigration_countries", "get_top_emigration_countries",
     "calculate_net_migration", "aggregate_by_year", "map_country_codes_to_names",
     "add_country_coordinates", "prepare_migration_flows", "net_migration_by_year"}

\* C24: no core operation modifies the table it is given: after the call
\* the caller's table has the same columns, rows and values as before.
C24_InputUnmodified ==
    [][(pc = "ready" /\ call.op \in CoreOps) => call'.df = call.df]_vars

\* calculate_net_migration has written the column net_migration into its
\* result and the caller's table has no such column.
C24_Witness ==
    /\ pc = "done"
    /\ call.op = "calculate_net_migration"
    /\ ret.kind = "return"
    /\ Len(call.df.rows) = 2
    /\ HasColumn(ret.value, "net_migration")
    /\ ~HasColumn(call.df, "net_migration")
    /\ ret.value.rows[1].net_migration = Some(15)

(* ------------------- claims: country-name resolution ------------------ *)

NamesDone == pc = "done" /\ call.op = "map_country_codes_to_names"

TopCountriesDone == pc = "done" /\ call.op \in TopOps

\* The volume column the call ranks by.
RankedColumn ==
    IF call.op = "get_top_immigration_countries" THEN "Immigration" ELSE "Emigration"

\* What a row's country is displayed as: its name where the table has names,
\* else its code.
DisplayedCountry(df, r) ==
    IF HasColumn(df, "countryname") THEN r.countryname ELSE r.countrycode

\* The year of the ranking: the given year, or the latest year in the table.
RankedYear(df, year) ==
    IF Truthy(year) THEN Some(IntToStr(Val(year))) ELSE LatestYear(df.rows)

\* The country's total of the column over the rows of the ranked year (over
\* all its rows where the table has no year).
CountryTotal(df, year, column, country) ==
    LET counted(r) ==
            /\ DisplayedCountry(df, r) = country
            /\ HasColumn(df, "year") => AsStr(r.year) = AsStr(RankedYear(df, year))
    IN  SumSkipNa(SelectSeq(df.rows, counted), column)

NetByYearDone == pc = "done" /\ call.op = "net_migration_by_year"

\* Every group of the aggregated table has net_migration = Immigration -
\* Emigration.
GroupsConsistent(df) ==
    \A k \in 1..Len(df.rows) :
        df.rows[k].net_migration
            = Some(Val(df.rows[k].Immigration) - Val(df.rows[k].Emigration))

\* The input has a volume in both columns of every row.
NoNullVolume(df) ==
    \A i \in 1..Len(df.rows) :
        NotNa(df.rows[i].Immigration) /\ NotNa(df.rows[i].Emigration)

\* C29: after calculate_net_migration followed by aggregate_by_year every
\* aggregated group satisfies net_migration = Immigration - Emigration (the
\* summed columns of the group), including when some input rows have a null
\* Immigration or Emigration.
C29_NetConsistentUnderAggregation ==
    (/\ NetByYearDone
     /\ HasColumn(ret.value, "net_migration")
     /\ HasColumn(call.df, "year")) =>
        GroupsConsistent(ret.value)

\* The groups are consistent when no input row has a null volume.
NetConsistentWithoutNulls ==
    (/\ NetByYearDone
     /\ HasColumn(ret.value, "net_migration")
     /\ HasColumn(call.df, "year")
     /\ NoNullVolume(call.df)) =>
        GroupsConsistent(ret.value)

\* A table without nulls of two rows of one year has been aggregated.
NetWithoutNullsAggregated ==
    /\ NetByYearDone
    /\ HasColumn(call.df, "year")
    /\ Len(call.df.rows) = 2
    /\ HasColumn(call.df, "Immigration") /\ HasColumn(call.df, "Emigration")
    /\ NoNullVolume(call.df)
    /\ Len(ret.value.rows) = 1
    /\ ret.value.rows[1].net_migration = Some(40)

(* --------------------- CPI client: code-label resolver ---------------- *)

\* sorted({item["key"][0] for item in payload.get("data", [])})
ProductCodes(payload) ==
    Sorted({payload.data[i].key[1] : i \in 1..Len(payload.data)})

\* dict(zip(product_codes, product_groups))
CodeToLabel(payload, product_groups) == ZipDict(ProductCodes(payload), product_groups)

\* The answer of the wrapper's get_variables() when the metadata cannot be
\* read: the default structure of the except branch.
NoVariables == [ok |-> FALSE, product_groups |-> <<>>, month |-> <<>>]

\* SCBClientCOL.get_variables(): the label lists of the metadata, or the
\* default structure when reading them fails.
GetVariables(api) == IF api.metadata.ok THEN api.metadata ELSE NoVariables

\* The table the CPI client queries.
CpiTable == "KPI2020COICOPM"

\* scb.set_query(...) followed by scb.get_data(): the data query posted to
\* the statistics API.
CpiQuery(product_groups, observations, month) ==
    [table |-> CpiTable, product_groups |-> product_groups,
     observations |-> observations, month |-> month]

\* The API's answer to a data query that cannot be read as a payload.
Failed == [failed |-> TRUE]

\* An operation of a client: its outcome and the data queries it posted.
Effect(outcome, queries) == [outcome |-> outcome, sent |-> queries]

\* SCBClientCOL.get_product_group_code_mapping(): the map from the sample
\* query of the most recent month, or the empty map.
GetProductGroupCodeMapping(api) ==
    LET variables == GetVariables(api)
        all_product_groups == variables.product_groups
        all_months == variables.month
    IN  IF all_product_groups = <<>> \/ all_months = <<>>
        THEN Effect(Returned(<<>>), <<>>)
        ELSE LET sample_month == all_months[Len(all_months)]
                 query == CpiQuery(all_product_groups, <<"Index">>, <<sample_month>>)
             IN  IF api.sample = Failed
                 THEN Effect(Returned(<<>>), <<query>>)
                 ELSE Effect(Returned(CodeToLabel(api.sample, all_product_groups)),
                             <<query>>)

(* ---------------------- CPI client: fetch_cpi_dataframe --------------- *)

\* A month 'YYYY-MM' or 'YYYYMmm' is the pair <<year, month>>; its place in
\* the calendar:
MonthIndex(p) == p[1] * 12 + (p[2] - 1)

\* months_range(start, end): every month from start to end.
MonthsRange(start, end) ==
    LET n == MonthIndex(end) - MonthIndex(start) + 1
    IN  [k \in 1..(IF n < 0 THEN 0 ELSE n) |->
            LET t == MonthIndex(start) + k - 1
            IN  <<t \div 12, (t % 12) + 1>>]

\* all_months[-n:] for n > 0
LastMonths(all_months, n) ==
    SubSeq(all_months, IF n >= Len(all_months) THEN 1 ELSE Len(all_months) - n + 1,
           Len(all_months))

\* "derive months if needed": the months list, else the start..end range,
\* else the latest last_n_months months of the metadata.
DeriveMonths(variables, months, start, end, last_n_months) ==
    IF NotNa(months) THEN Returned(Val(months))
    ELSE IF NotNa(start) /\ NotNa(end)
    THEN Returned(MonthsRange(Val(start), Val(end)))
    ELSE IF Truthy(last_n_months)
    THEN (IF variables.month = <<>> THEN Raised("ValueError")
          ELSE Returned(LastMonths(variables.month, Val(last_n_months))))
    ELSE Raised("ValueError")

\* The label cell without the fillna: a code outside the map has no label.
LabelOfNoFill(cell, code_to_label) ==
    IF IsNull(cell) THEN Null
    ELSE IF Val(cell) \in DOMAIN code_to_label THEN Some(code_to_label[Val(cell)])
    ELSE Null

\* df["Product group"].map(code_to_label).fillna(df["Product group"]) on
\* one cell
LabelOf(cell, code_to_label) ==
    IF IsNull(cell) THEN Null
    ELSE IF Val(cell) \in DOMAIN code_to_label THEN Some(code_to_label[Val(cell)])
    ELSE cell

\* df["Product group_label"] = ...
WithLabels(df, code_to_label) ==
    Frame(WithColumn(df.columns, "Product group_label"),
          [i \in 1..Len(df.rows) |->
              [c \in (DOMAIN df.rows[i]) \cup {"Product group_label"} |->
                  IF c = "Product group_label"
                  THEN LabelOf(df.rows[i]["Product group"], code_to_label)
                  ELSE df.rows[i][c]]])

\* The default arguments start='2020-01' and end='2025-12'.
DefaultStart == Some(<<2020, 1>>)

DefaultEnd == Some(<<2025, 12>>)

\* SCBClientCOL.fetch_cpi_dataframe(product_group_labels=, observations=,
\* months=, start=, end=, last_n_months=, add_labels=)
FetchCpiDataframe(api, product_group_labels, observations, months, start, end, last_n_months, add_labels) ==
    LET variables == GetVariables(api)
        derived == DeriveMonths(variables, months, start, end, last_n_months)
    IN  IF derived.kind = "raise" THEN Effect(derived, <<>>)
        ELSE
        LET query == CpiQuery(product_group_labels, observations, derived.value) IN
        IF api.data = Failed THEN Effect(Raised("RequestError"), <<query>>)
        ELSE
        LET payload == api.data
            \* the statements after df = pxweb_payload_to_df(payload)
            labelled(normalised) ==
                IF normalised.kind = "raise" THEN Effect(normalised, <<query>>)
                ELSE
                LET df == normalised.value IN
                IF add_labels /\ HasColumn(df, "Product group")
                THEN Effect(Returned(WithLabels(df,
                                CodeToLabel(payload, variables.product_groups))),
                            <<query>>)
                ELSE Effect(normalised, <<query>>)
        IN  labelled(PxwebPayloadToDf(payload))

(* --------------------- CPI page: fetch_all_data ----------------------- *)

\* get_top_level_product_groups(client): the labels of the two-digit codes
\* of the map, or every declared label when the map is empty.
GetTopLevelProductGroups(api) ==
    LET mapping == GetProductGroupCodeMapping(api)
        code_to_label == mapping.outcome.value
    IN  IF code_to_label = <<>>
        THEN Effect(Returned(GetVariables(api).product_groups), mapping.sent)
        ELSE LET top_level_codes == SelectSeq(Sorted(DOMAIN code_to_label), MatchTwoDigits)
             IN  Effect(Returned([k \in 1..Len(top_level_codes) |->
                                     code_to_label[top_level_codes[k]]]),
                        mapping.sent)

\* fetch_all_data(last_n_months, all_observations) with nothing cached: the
\* product groups are looked up, the table is fetched and filtered.
FetchAllData(api, last_n_months, all_observations) ==
    LET \* the statements after df = fetch_cpi_dataframe(...)
        filtered(groups, fetch) ==
            IF fetch.outcome.kind = "raise"
            THEN Effect(fetch.outcome, groups.sent \o fetch.sent)
            ELSE Effect(Returned(Some(FilterTopLevelProductGroups(fetch.outcome.value))),
                        groups.sent \o fetch.sent)
        \* the statements after all_groups = get_top_level_product_groups(client)
        fetched(groups) ==
            LET all_groups == groups.outcome.value
            IN  IF all_groups = <<>> THEN Effect(Returned(Null), groups.sent)
                ELSE filtered(groups,
                              FetchCpiDataframe(api, all_groups, all_observations, Null,
                                                DefaultStart, DefaultEnd,
                                                Some(last_n_months), TRUE))
    IN  fetched(GetTopLevelProductGroups(api))

(* ------------------ migration client: fetch_migration_dataframe ------- *)

\* The table the migration client queries.
MigrationTable == "ImmiEmiFod"

\* The countries written into the query, restricted to the model's codes.
QueryCountries == <<"DE", "NO", "XK">>

\* The query of fetch_migration_dataframe: a literal that selects the listed
\* countries of birth and both genders, and no period.
MigrationQuery ==
    [table |-> MigrationTable,
     selection |-> [Fodelseland |-> QueryCountries, Kon |-> <<"1", "2">>]]

\* The API's answer with an error status (raise_for_status raises HTTPError).
HttpError == [failed |-> TRUE, status |-> "HTTPError"]

\* "Final check": a table still without countrycode gets it from the keys,
\* at the place of the Fodelseland column of the answer.
WithCountryFromKeys(df, payload) ==
    LET at == {i \in 1..Len(payload.columns) : payload.columns[i].code = "Fodelseland"}
        idx == CHOOSE i \in at : \A j \in at : i <= j
    IN  IF HasColumn(df, "countrycode") \/ at = {} \/ payload.data = <<>>
        THEN Returned(df)
        ELSE IF Len(payload.data[1].key) < idx THEN Returned(df)
        ELSE IF \E i \in 1..Len(payload.data) : Len(payload.data[i].key) < idx
        THEN Raised("IndexError")
        ELSE Returned(Frame(Append(df.columns, "countrycode"),
                            [i \in 1..Len(df.rows) |->
                                [c \in (DOMAIN df.rows[i]) \cup {"countrycode"} |->
                                    IF c = "countrycode" THEN Some(payload.data[i].key[idx])
                                    ELSE df.rows[i][c]]]))

\* SCBClientMigration.fetch_migration_dataframe(countries=, genders=, years=,
\* start_year=, end_year=)
FetchMigrationDataframe(api, countries, genders, years, start_year, end_year) ==
    LET query == MigrationQuery
        \* the statements after df = pxweb_payload_to_migration_df(payload)
        checked(normalised) ==
            IF normalised.kind = "raise" THEN Effect(normalised, <<query>>)
            ELSE Effect(WithCountryFromKeys(normalised.value, api.data), <<query>>)
    IN  IF api.data = HttpError THEN Effect(Raised("ValueError"), <<query>>)
        ELSE IF api.data = Failed THEN Effect(Raised("RequestError"), <<query>>)
        ELSE checked(PxwebPayloadToMigrationDf(api.data))

\* fetch_migration_data(start_year, end_year) with nothing cached.
FetchMigrationData(api, start_year, end_year) ==
    FetchMigrationDataframe(api, Null, Null, Null, Some(start_year), Some(end_year))

(* ------------------ specification: the API clients -------------------- *)

HOUSING == <<"H", "O", "U", "S", "I", "N", "G">>

\* The metadata of the CPI table: unreadable, or the declared labels (none
\* to three) and the months (none or three).
MetadataMonths == <<<<2024, 11>>, <<2024, 12>>, <<2025, 1>>>>

CpiMetadata ==
    {NoVariables}
    \cup {[ok |-> TRUE, product_groups |-> g, month |-> m] :
             g \in {<<>>, <<TOTAL>>, <<TOTAL, FOOD>>, <<TOTAL, FOOD, HOUSING>>},
             m \in {<<>>, MetadataMonths}}

\* The data items of an answer: one observation of a top-level group, of a
\* sub-group and of a second top-level group.
ClientItems ==
    {[key |-> <<<<"0", "1">>, <<"2", "0", "2", "5", "M", "0", "1">>>>,
      values |-> <<<<"1", "2">>>>],
     [key |-> <<<<"0", "1", ".", "1">>, <<"2", "0", "2", "5", "M", "0", "1">>>>,
      values |-> <<<<"-", "3", ".", "5">>>>],
     [key |-> <<<<"1", "2">>, <<"2", "0", "2", "4", "M", "1", "2">>>>,
      values |-> <<<<".", ".">>>>]}

ClientColumns ==
    <<[text |-> "Product group", type |-> "d"], [text |-> "month", type |-> "t"],
      [text |-> "Index", type |-> "c"]>>

\* The answers to a data query: no readable answer, or a payload of up to
\* MaxItems items.
CpiAnswers ==
    {Failed} \cup {[columns |-> ClientColumns, data |-> d] :
                      d \in SeqUpTo(ClientItems, MaxItems)}

\* The ways the months of a query are given: as fetch_all_data gives them
\* (a count beside the default range), a count alone, a list, nothing.
MonthArguments ==
    {[months |-> Null, start |-> DefaultStart, end |-> DefaultEnd, last_n_months |-> Some(2)],
     [months |-> Null, start |-> Null, end |-> Null, last_n_months |-> Some(2)],
     [months |-> Some(<<<<2024, 12>>>>), start |-> DefaultStart, end |-> DefaultEnd,
      last_n_months |-> Null],
     [months |-> Null, start |-> Null, end |-> Null, last_n_months |-> Null]}

\* The positions of the time-range slider.
SliderValues == {1, 2}

MappingCalls ==
    {[op |-> "get_product_group_code_mapping", api |-> [metadata |-> m, sample |-> a]] :
        m \in CpiMetadata, a \in CpiAnswers}

FetchCalls ==
    {[op |-> "fetch_cpi_dataframe", api |-> [metadata |-> m, data |-> a],
      product_group_labels |-> <<FOOD>>, observations |-> <<"Index">>,
      months |-> t.months, start |-> t.start, end |-> t.end,
      last_n_months |-> t.last_n_months, add_labels |-> l] :
        m \in CpiMetadata, a \in CpiAnswers, t \in MonthArguments, l \in BOOLEAN}

PageCalls ==
    {[op |-> "fetch_all_data", api |-> [metadata |-> m, sample |-> a, data |-> b],
      last_n_months |-> n, all_observations |-> <<"Index">>] :
        m \in CpiMetadata, a \in CpiAnswers, b \in CpiAnswers, n \in SliderValues}

\* The data items of an answer of the migration table.
MigrationItems ==
    {[key |-> <<"NO", "1", <<"2", "0", "2", "0">>>>, values |-> <<<<"1", "2">>, <<"5">>>>],
     [key |-> <<"DE", "2", <<"2", "0", "2", "1">>>>, values |-> <<<<"3", "0">>, <<".", ".">>>>],
     [key |-> <<"XK", "2", <<"2", "0", "2", "1">>>>, values |-> <<<<"7">>, <<"2">>>>]}

\* The columns of an answer as the Swedish API names them.
MigrationAnswerColumns ==
    <<[code |-> "Fodelseland", text |-> "födelseland", type |-> "d"],
      [code |-> "Kon", text |-> "kön", type |-> "d"],
      [code |-> "Tid", text |-> "år", type |-> "t"],
      [code |-> "BE0101M3", text |-> "Invandringar", type |-> "c"],
      [code |-> "BE0101M4", text |-> "Utvandringar", type |-> "c"]>>

\* The answers to the migration query: an error status, no readable answer,
\* or a payload of up to MaxItems items.
MigrationAnswers ==
    {HttpError, Failed}
    \cup {[columns |-> MigrationAnswerColumns, data |-> d] :
             d \in SeqUpTo(MigrationItems, MaxItems)}

\* The year ranges of the page's slider.
YearRanges == {<<2010, 2020>>, <<2015, 2024>>}

MigrationFetchCalls ==
    {[op |-> "fetch_migration_dataframe", api |-> [data |-> a],
      countries |-> c, genders |-> g, years |-> y,
      start_year |-> Some(r[1]), end_year |-> Some(r[2])] :
        a \in MigrationAnswers, c \in {Null, Some(<<"NO">>)}, g \in {Null, Some(<<"1">>)},
        y \in {Null, Some(<<2021>>)}, r \in YearRanges}

MigrationPageCalls ==
    {[op |-> "fetch_migration_data", api |-> [data |-> a],
      start_year |-> r[1], end_year |-> r[2]] :
        a \in MigrationAnswers, r \in YearRanges}

InitClient ==
    /\ pc = "ready"
    /\ ret = NoOutcome
    /\ sent = <<>>
    /\ \/ call \in MappingCalls
       \/ call \in FetchCalls
       \/ call \in PageCalls
       \/ call \in MigrationFetchCalls
       \/ call \in MigrationPageCalls

CallGetProductGroupCodeMapping ==
    /\ pc = "ready"
    /\ call.op = "get_product_group_code_mapping"
    /\ \E effect \in {GetProductGroupCodeMapping(call.api)} :
          ret' = effect.outcome /\ sent' = sent \o effect.sent
    /\ pc' = "done"
    /\ UNCHANGED call

CallFetchCpiDataframe ==
    /\ pc = "ready"
    /\ call.op = "fetch_cpi_dataframe"
    /\ \E effect \in {FetchCpiDataframe(call.api, call.product_group_labels,
                                       call.observations, call.months, call.start,
                                       call.end, call.last_n_months, call.add_labels)} :
          ret' = effect.outcome /\ sent' = sent \o effect.sent
    /\ pc' = "done"
    /\ UNCHANGED call

CallFetchAllData ==
    /\ pc = "ready"
    /\ call.op = "fetch_all_data"
    /\ \E effect \in {FetchAllData(call.api, call.last_n_months, call.all_observations)} :
          ret' = effect.outcome /\ sent' = sent \o effect.sent
    /\ pc' = "done"
    /\ UNCHANGED call

CallFetchMigrationDataframe ==
    /\ pc = "ready"
    /\ call.op = "fetch_migration_dataframe"
    /\ \E effect \in {FetchMigrationDataframe(call.api, call.countries, call.genders,
                                             call.years, call.start_year, call.end_year)} :
          ret' = effect.outcome /\ sent' = sent \o effect.sent
    /\ pc' = "done"
    /\ UNCHANGED call

CallFetchMigrationData ==
    /\ pc = "ready"
    /\ call.op = "fetch_migration_data"
    /\ \E effect \in {FetchMigrationData(call.api, call.start_year, call.end_year)} :
          ret' = effect.outcome /\ sent' = sent \o effect.sent
    /\ pc' = "done"
    /\ UNCHANGED call

NextClient ==
    \/ CallGetProductGroupCodeMapping
    \/ CallFetchCpiDataframe
    \/ CallFetchAllData
    \/ CallFetchMigrationDataframe
    \/ CallFetchMigrationData

SpecClient == InitClient /\ [][NextClient]_vars

(* ------------------- claims: the code-label resolver ------------------ *)

\* The codes observed in a payload.
ObservedCodes(payload) == {payload.data[i].key[1] : i \in 1..Len(payload.data)}

\* The place of a code among the observed codes in ascending string order.
PlaceOf(c, codes) == Cardinality({d \in codes : StrLt(d, c)}) + 1

MappingDone == pc = "done" /\ call.op = "get_product_group_code_mapping"

FetchDone == pc = "done" /\ call.op = "fetch_cpi_dataframe"

\* The labels declared by the metadata as the client reads them.
DeclaredLabels == IF call.api.metadata.ok THEN call.api.metadata.product_groups ELSE <<>>

\* C22: the resolver maps the i-th smallest distinct observed code (codes
\* sorted ascending as strings) to the i-th declared label for every i up to
\* the shorter of the two lists, and gives no entry to the codes beyond the
\* declared list; get_product_group_code_mapping returns this map and
\* fetch_cpi_dataframe labels its rows with it.
C22_PositionalZip ==
    /\ (/\ MappingDone
        /\ DeclaredLabels # <<>>
        /\ call.api.metadata.month # <<>>
        /\ call.api.sample # Failed) =>
          LET codes == ObservedCodes(call.api.sample) IN
          /\ ret.kind = "return"
          /\ DOMAIN ret.value = {c \in codes : PlaceOf(c, codes) <= Len(DeclaredLabels)}
          /\ \A c \in DOMAIN ret.value : ret.value[c] = DeclaredLabels[PlaceOf(c, codes)]
    /\ (/\ FetchDone
        /\ ret.kind = "return"
        /\ call.add_labels
        /\ HasColumn(ret.value, "Product group")) =>
          LET codes == ObservedCodes(call.api.data) IN
          /\ HasColumn(ret.value, "Product group_label")
          /\ \A i \in 1..Len(ret.value.rows) :
                LET code == ret.value.rows[i]["Product group"]
                    place == PlaceOf(Val(code), codes)
                IN  ret.value.rows[i]["Product group_label"] =
                        IF place <= Len(DeclaredLabels) THEN Some(DeclaredLabels[place])
                        ELSE code

\* The sample lists the sub-group "01.1" before its group "01" and one label
\* is declared: the map gives the label to "01" and nothing to "01.1".
C22_Witness ==
    /\ MappingDone
    /\ DeclaredLabels = <<TOTAL>>
    /\ call.api.metadata.month # <<>>
    /\ call.api.sample # Failed
    /\ Len(call.api.sample.data) = 2
    /\ call.api.sample.data[1].key[1] = <<"0", "1", ".", "1">>
    /\ call.api.sample.data[2].key[1] = <<"0", "1">>
    /\ ret = Returned((<<"0", "1">> :> TOTAL))

(* ---------------------- claims: degraded metadata --------------------- *)

\* The metadata cannot be read, or declares no product groups or no months.
MetadataDegraded ==
    \/ ~call.api.metadata.ok
    \/ call.api.metadata.product_groups = <<>>
    \/ call.api.metadata.month = <<>>

\* The resolver degrades to the empty map, and a fetched table has the raw
\* code wherever the map has no label, so that no label is null.
DegradesToRawCodes ==
    /\ MappingDone => ret.kind = "return"
    /\ (MappingDone /\ MetadataDegraded) => ret = Returned(<<>>)
    /\ (FetchDone /\ ret.kind = "return" /\ HasColumn(ret.value, "Product group_label")) =>
          \A i \in 1..Len(ret.value.rows) :
              LET code == ret.value.rows[i]["Product group"]
                  label == ret.value.rows[i]["Product group_label"]
              IN  /\ NotNa(label)
                  /\ DeclaredLabels = <<>> => label = code

\* The fetch gave up before it posted its query.
FailedBeforeQuery == ret.kind = "raise" /\ sent = <<>>

\* C23 as stated: with degraded metadata get_product_group_code_mapping
\* returns the empty map without raising, a fetched row without a label has
\* the raw code as its label (no label is null), and no fetch that is told
\* its months in some way fails because the metadata is missing.
C23_DegradedNeverFails ==
    /\ DegradesToRawCodes
    /\ (/\ FetchDone
        /\ MetadataDegraded
        /\ \/ NotNa(call.months)
           \/ NotNa(call.start) /\ NotNa(call.end)
           \/ Truthy(call.last_n_months)) => ~FailedBeforeQuery

\* C23, amended: as above, but the fetch is safe from missing metadata only
\* when its months are given as a list or as a start..end range (as
\* fetch_all_data gives them); told a count of months alone, it raises
\* ValueError when the metadata has no months.
C23_DegradedFailsOnlyOnCount ==
    /\ DegradesToRawCodes
    /\ (/\ FetchDone
        /\ MetadataDegraded
        /\ \/ NotNa(call.months)
           \/ NotNa(call.start) /\ NotNa(call.end)) => ~FailedBeforeQuery
    /\ (/\ FetchDone
        /\ IsNull(call.months)
        /\ IsNull(call.start)
        /\ Truthy(call.last_n_months)
        /\ (~call.api.metadata.ok \/ call.api.metadata.month = <<>>)) =>
          ret = Raised("ValueError") /\ sent = <<>>

\* The metadata cannot be read and the fetch, called as fetch_all_data calls
\* it, returns two rows labelled with their raw codes.
C23_Witness ==
    /\ FetchDone
    /\ ~call.api.metadata.ok
    /\ IsNull(call.months) /\ call.start = DefaultStart /\ Truthy(call.last_n_months)
    /\ call.add_labels
    /\ ret.kind = "return"
    /\ Len(ret.value.rows) = 2
    /\ ret.value.rows[1]["Product group_label"] = Some(<<"0", "1", ".", "1">>)
    /\ ret.value.rows[2]["Product group_label"] = Some(<<"1", "2">>)

(* ------------------ claims: the requests of a page load --------------- *)

\* The data queries sent for a table.
QueriesFor(table) ==
    LET forTable(q) == q.table = table
    IN  SelectSeq(sent, forTable)

PageLoaded == pc = "done" /\ call.op \in {"fetch_all_data", "fetch_migration_data"}

\* C25: a page load with nothing cached sends at most one data query per
\* dataset: at most one for the CPI table when the CPI page loads and at
\* most one for the migration table when the migration page loads.
C25_OneQueryPerDataset ==
    PageLoaded =>
        /\ Len(QueriesFor(CpiTable)) <= 1
        /\ Len(QueriesFor(MigrationTable)) <= 1

\* The migration page keeps to one query.
MigrationPageSendsOneQuery ==
    (pc = "done" /\ call.op = "fetch_migration_data") =>
        Len(sent) = 1 /\ sent[1].table = MigrationTable

(* ------------------ claims: the months of the CPI query --------------- *)

\* C26: fetch_cpi_dataframe called with last_n_months = N and no months
\* list, as fetch_all_data calls it, queries the latest N months of the
\* metadata month list.
C26_LatestMonthsQueried ==
    /\ (/\ FetchDone
        /\ IsNull(call.months)
        /\ Truthy(call.last_n_months)
        /\ call.api.metadata.ok
        /\ call.api.metadata.month # <<>>) =>
          /\ Len(sent) = 1
          /\ sent[1].month = LastMonths(call.api.metadata.month, Val(call.last_n_months))
    /\ (/\ pc = "done"
        /\ call.op = "fetch_all_data"
        /\ call.api.metadata.ok
        /\ call.api.metadata.month # <<>>
        /\ sent # <<>>) =>
          sent[Len(sent)].month = LastMonths(call.api.metadata.month, call.last_n_months)

\* Called with the count alone (start=None, end=None), the fetch does query
\* the latest N months.
CountAloneQueriesLatestMonths ==
    (/\ FetchDone
     /\ IsNull(call.months) /\ IsNull(call.start)
     /\ Truthy(call.last_n_months)
     /\ call.api.metadata.ok
     /\ call.api.metadata.month # <<>>) =>
        /\ Len(sent) = 1
        /\ sent[1].month = LastMonths(call.api.metadata.month, Val(call.last_n_months))

(* ------------------ claims: the migration query ----------------------- *)

MigrationFetchDone == pc = "done" /\ call.op = "fetch_migration_dataframe"

\* start_year..end_year
RangeOfYears(start_year, end_year) ==
    [k \in 1..(end_year - start_year + 1) |-> start_year + k - 1]

\* C27: the query fetch_migration_dataframe sends is restricted to its
\* arguments: the given countries (None = all), the given genders (None =
\* all), and the given years or the range start_year..end_year.
C27_QueryFollowsArguments ==
    MigrationFetchDone =>
        /\ Len(sent) = 1
        /\ NotNa(call.countries) => sent[1].selection.Fodelseland = Val(call.countries)
        /\ NotNa(call.genders) => sent[1].selection.Kon = Val(call.genders)
        /\ "Tid" \in DOMAIN sent[1].selection
        /\ "Tid" \in DOMAIN sent[1].selection =>
              sent[1].selection["Tid"] =
                  IF NotNa(call.years) THEN Val(call.years)
                  ELSE RangeOfYears(Val(call.start_year), Val(call.end_year))

\* Every call sends the one literal query.
MigrationQueryIsFixed ==
    MigrationFetchDone => sent = <<MigrationQuery>>

====
